---- MODULE Spec2Model ----
(***************************************************************************)
(* Model of the enrichment-and-reconciliation engine of                    *)
(* src/Strict_dataset_creator.py (class FinalStrictCreator and the two     *)
(* module-level normalizers).                                              *)
(*                                                                         *)
(* Strings are sequences of one-character strings, so that replace, strip, *)
(* upper and split are computed and not assumed.  Python's None and the    *)
(* float NaN are the two values <<"None">> and <<"NaN">>: their single     *)
(* element is not one character, so no text is equal to either.            *)
(***************************************************************************)
EXTENDS Integers, Sequences, FiniteSets, TLC

\* ------------------------------------------------------------------ bounds
\* longest text given to normalize_issn in SpecNorm
MaxLen == 4

\* ------------------------------------------------------------------ values
None == <<"None">>
NaN == <<"NaN">>
EmptyStr == <<>>

\* the characters of the model's texts
LowerCase == <<"a", "b", "c", "d", "e", "f", "g", "h", "i", "j", "k", "l", "m",
               "n", "o", "p", "q", "r", "s", "t", "u", "v", "w", "x", "y", "z">>
UpperCase == <<"A", "B", "C", "D", "E", "F", "G", "H", "I", "J", "K", "L", "M",
               "N", "O", "P", "Q", "R", "S", "T", "U", "V", "W", "X", "Y", "Z">>
Digits == {"0", "1", "2", "3", "4", "5", "6", "7", "8", "9"}
Whitespace == {" "}
Chars ==
    {LowerCase[k] : k \in 1..Len(LowerCase)} \cup {UpperCase[k] : k \in 1..Len(UpperCase)}
        \cup Digits \cup Whitespace \cup {"-", ",", ".", ";", ":", "/"}

\* the characters of the texts SpecNorm enumerates
NormChars == {"1", "x", "X", "-", " "}

RECURSIVE TextsUpTo(_)
TextsUpTo(n) ==
    IF n = 0 THEN {<<>>}
    ELSE LET shorter == TextsUpTo(n - 1)
         IN shorter \cup
                {Append(s, c) : s \in {t \in shorter : Len(t) = n - 1}, c \in NormChars}

\* str.replace(old, "") for a one-character old
ReplaceChar(s, old) == SelectSeq(s, LAMBDA c : c # old)

\* str.strip(): drops the leading and the trailing whitespace
RECURSIVE LStrip(_)
LStrip(s) ==
    IF s # <<>> /\ Head(s) \in Whitespace THEN LStrip(Tail(s)) ELSE s

RECURSIVE RStrip(_)
RStrip(s) ==
    IF s # <<>> /\ s[Len(s)] \in Whitespace
    THEN RStrip(SubSeq(s, 1, Len(s) - 1))
    ELSE s

Strip(s) == RStrip(LStrip(s))

\* str.upper(), character by character
UpperChar(c) ==
    IF \E k \in 1..Len(LowerCase) : LowerCase[k] = c
    THEN UpperCase[CHOOSE k \in 1..Len(LowerCase) : LowerCase[k] = c]
    ELSE c
Upper(s) == [k \in 1..Len(s) |-> UpperChar(s[k])]

\* str.lower(), character by character
LowerChar(c) ==
    IF \E k \in 1..Len(UpperCase) : UpperCase[k] = c
    THEN LowerCase[CHOOSE k \in 1..Len(UpperCase) : UpperCase[k] = c]
    ELSE c
Lower(s) == [k \in 1..Len(s) |-> LowerChar(s[k])]

\* a plausible slip: trimming before the hyphens are removed
normalize_issn_strip_first(x) ==
    IF x = None \/ x = NaN THEN EmptyStr
    ELSE Upper(ReplaceChar(Strip(x), "-"))

\* normalize_issn(x): "" for None and NaN, else str(x).replace("-", "").strip().upper()
normalize_issn(x) ==
    IF x = None \/ x = NaN THEN EmptyStr
    ELSE Upper(Strip(ReplaceChar(x, "-")))

\* ------------------------------------------------------------------ texts of the fixtures
ISSN_A == <<"1", "2", "3", "4", "5", "6", "7", "8">>
ISSN_B == <<"8", "7", "6", "5", "4", "3", "2", "X">>
ISSN_C == <<"2", "2", "2", "2", "3", "3", "3", "3">>

\* the written forms of an identifier: a separator after the fourth character,
\* lower or upper case, blanks around it
Blanks(n) == [k \in 1..n |-> " "]
Variant(base, sep, lower, lead, trail) ==
    LET body == SubSeq(base, 1, 4) \o sep \o SubSeq(base, 5, Len(base))
    IN Blanks(lead) \o (IF lower THEN Lower(body) ELSE body) \o Blanks(trail)
Hyphenated(base) == Variant(base, <<"-">>, FALSE, 0, 0)
Separators == {<<>>, <<"-">>, <<" ">>}
Variants(base) ==
    {Variant(base, sep, lower, lead, trail) :
        sep \in Separators, lower \in BOOLEAN, lead \in 0..1, trail \in 0..1}

COL_ISSN == <<"I", "S", "S", "N">>
COL_EISSN == <<"E", "I", "S", "S", "N">>
COL_Issn == <<"I", "s", "s", "n">>
COL_issn == <<"i", "s", "s", "n">>
COL_eISSN == <<"e", "I", "S", "S", "N">>
COL_Print_ISSN == <<"P", "r", "i", "n", "t", "-", "I", "S", "S", "N">>
COL_Title == <<"T", "i", "t", "l", "e">>

\* ------------------------------------------------------------------ the Indexing Registry
\* an identifier is kept only with this many characters
ValidIssnLen == 8

\* the column names load_scopus_sources probes
ScopusProbedColumns == {COL_ISSN, COL_EISSN, COL_Issn, COL_issn}

\* df[col].dropna().astype(str)
DropNa(vals) == SelectSeq(vals, LAMBDA v : v # NaN /\ v # None)

RegistryOfColumn(col) ==
    {normalize_issn(DropNa(col.vals)[k]) : k \in 1..Len(DropNa(col.vals))}

\* load_scopus_sources(): the empty set for a missing or unreadable file, else
\* the 8-character normalized values of the probed columns
load_scopus_sources(file) ==
    IF ~file.exists THEN {}
    ELSE IF ~file.readable THEN {}
    ELSE UNION {{clean \in RegistryOfColumn(file.columns[c]) : Len(clean) = ValidIssnLen} :
                    c \in {k \in 1..Len(file.columns) :
                              file.columns[k].name \in ScopusProbedColumns}}

\* a plausible slip: the registry compared with the identifier as written
is_scopus_indexed_raw(sources, source_issn_list) ==
    IF sources = {} \/ source_issn_list = <<>> THEN FALSE
    ELSE \E k \in 1..Len(source_issn_list) : source_issn_list[k] \in sources

\* a plausible slip: the loop answers after its first element
is_scopus_indexed_first_only(sources, source_issn_list) ==
    IF sources = {} \/ source_issn_list = <<>> THEN FALSE
    ELSE normalize_issn(source_issn_list[1]) \in sources

\* is_scopus_indexed(source_issn_list)
is_scopus_indexed(sources, source_issn_list) ==
    IF sources = {} \/ source_issn_list = <<>> THEN FALSE
    ELSE \E k \in 1..Len(source_issn_list) :
            normalize_issn(source_issn_list[k]) \in sources

\* ------------------------------------------------------------------ the Ranking Tables
COL_SJR_Quartile == <<"S", "J", "R", " ", "Q", "u", "a", "r", "t", "i", "l", "e">>
COL_SJR_quartile == <<"S", "J", "R", " ", "q", "u", "a", "r", "t", "i", "l", "e">>
COL_Quartile == <<"Q", "u", "a", "r", "t", "i", "l", "e">>
COL_sjr_quartile == <<"s", "j", "r", " ", "q", "u", "a", "r", "t", "i", "l", "e">>
COL_SJR == <<"S", "J", "R">>
COL_Region == <<"R", "e", "g", "i", "o", "n">>
COL_Issn_padded == <<" ", "I", "s", "s", "n", " ">>
COL_Print_ISSN_spaced == <<"P", "r", "i", "n", "t", " ", "I", "S", "S", "N">>
REGION_EAST == <<"E", "a", "s", "t", "e", "r", "n", " ", "E", "u", "r", "o", "p", "e">>
REGION_WEST == <<"W", "e", "s", "t", "e", "r", "n", " ", "E", "u", "r", "o", "p", "e">>
TXT_issn == <<"i", "s", "s", "n">>
Q1 == <<"Q", "1">>
Q2 == <<"Q", "2">>
Q3 == <<"Q", "3">>
Q4 == <<"Q", "4">>

\* range(2020, 2025)
FirstScimagoYear == 2020
EndScimagoYear == 2025
\* a plausible slip: the last year of the collection window loaded too
ScimagoYears_through_end == FirstScimagoYear..EndScimagoYear

ScimagoYears == FirstScimagoYear..(EndScimagoYear - 1)

\* the collection window of the configuration: the years works are collected
\* for, and for which a ranking file may lie in the directory
START_YEAR == 2020
END_YEAR == 2025
CollectionYears == START_YEAR..END_YEAR

\* the file names tried for a year, in this order: the two regions, then the
\* two names with a blank before ".csv"
Candidates ==
    << [region |-> "Eastern", blank |-> FALSE], [region |-> "Western", blank |-> FALSE],
       [region |-> "Eastern", blank |-> TRUE], [region |-> "Western", blank |-> TRUE] >>

\* pd.read_csv of one file, its column names stripped, the Region column added
StampedRows(file, candidate) ==
    LET cols == {Strip(c) : c \in file.columns} \cup {COL_Region}
        Orig(c) == CHOOSE o \in file.columns : Strip(o) = c
    IN [k \in 1..Len(file.rows) |->
           [c \in cols |->
               IF c = COL_Region
               THEN (IF candidate.region = "Eastern" THEN REGION_EAST ELSE REGION_WEST)
               ELSE file.rows[k][Orig(c)]]]

\* the frames of the files of a year that exist and parse, in candidate order
RECURSIVE Parts(_, _)
Parts(files, k) ==
    IF k > Len(Candidates) THEN <<>>
    ELSE (IF files[k].exists /\ files[k].readable
          THEN <<StampedRows(files[k], Candidates[k])>>
          ELSE <<>>) \o Parts(files, k + 1)

\* pd.concat(parts, ignore_index=True): the rows in order, over the union of
\* the columns, NaN where a frame has no such column
RECURSIVE Flatten(_)
Flatten(parts) == IF parts = <<>> THEN <<>> ELSE Head(parts) \o Flatten(Tail(parts))

Concat(parts) ==
    LET rows == Flatten(parts)
        cols == UNION {DOMAIN rows[k] : k \in 1..Len(rows)}
    IN [k \in 1..Len(rows) |->
           [c \in cols |-> IF c \in DOMAIN rows[k] THEN rows[k][c] ELSE NaN]]

\* a plausible slip: the frames concatenated last file first
ConcatParts_reversed(parts) ==
    LET Rev == [k \in 1..Len(parts) |-> parts[Len(parts) + 1 - k]] IN Concat(Rev)

ConcatParts(parts) == Concat(parts)

\* load_scimago_data(): a table for every year with at least one file read
load_scimago_data(files) ==
    [y \in {yy \in ScimagoYears : Parts(files[yy], 1) # <<>>} |->
        ConcatParts(Parts(files[y], 1))]

\* str.split(",")
RECURSIVE Split(_, _)
Split(s, sep) ==
    IF \A k \in 1..Len(s) : s[k] # sep THEN <<s>>
    ELSE LET k == CHOOSE i \in 1..Len(s) : s[i] = sep /\ \A j \in 1..(i - 1) : s[j] # sep
         IN <<SubSeq(s, 1, k - 1)>> \o Split(SubSeq(s, k + 1, Len(s)), sep)

\* sub in s
Contains(s, sub) ==
    \E k \in 0..(Len(s) - Len(sub)) : SubSeq(s, k + 1, k + Len(sub)) = sub

\* the identifier-bearing columns of a row
IssnColumns(row) == {c \in DOMAIN row : Lower(c) = TXT_issn \/ Contains(Lower(c), TXT_issn)}

\* a plausible slip: only the first element of an identifier cell is compared
RowMatches_first_element(row, clean_target) ==
    \E c \in IssnColumns(row) :
        /\ row[c] # NaN
        /\ normalize_issn(Strip(Split(row[c], ",")[1])) = clean_target

\* some comma-separated element of some non-null identifier column normalizes
\* to the target
RowMatches(row, clean_target) ==
    \E c \in IssnColumns(row) :
        /\ row[c] # NaN
        /\ LET pieces == Split(row[c], ",")
           IN \E k \in 1..Len(pieces) : normalize_issn(Strip(pieces[k])) = clean_target

TierColumns == <<COL_SJR_Quartile, COL_SJR_quartile, COL_Quartile, COL_sjr_quartile, COL_SJR>>
TierLabels == {Q1, Q2, Q3, Q4}

\* the label of the first tier column of the row that holds one of the four
\* labels, None when there is none
RECURSIVE RowTierFrom(_, _)
RowTierFrom(row, k) ==
    IF k > Len(TierColumns) THEN None
    ELSE LET qcol == TierColumns[k]
         IN IF qcol \in DOMAIN row /\ row[qcol] # NaN /\ Strip(row[qcol]) \in TierLabels
            THEN Strip(row[qcol])
            ELSE RowTierFrom(row, k + 1)

\* a plausible slip: the tier columns tried in the opposite order
RowTier_last_column(row) ==
    LET valid == {k \in 1..Len(TierColumns) :
                     /\ TierColumns[k] \in DOMAIN row
                     /\ row[TierColumns[k]] # NaN
                     /\ Strip(row[TierColumns[k]]) \in TierLabels}
    IN IF valid = {} THEN None
       ELSE Strip(row[TierColumns[CHOOSE k \in valid : \A j \in valid : j <= k]])

RowTier(row) == RowTierFrom(row, 1)

\* a plausible slip: the scan takes the last matching row
RECURSIVE ScanRows_last(_, _, _)
ScanRows_last(rows, clean_target, k) ==
    IF k > Len(rows) THEN None
    ELSE LET later == ScanRows_last(rows, clean_target, k + 1)
         IN IF later # None THEN later
            ELSE IF RowMatches(rows[k], clean_target) THEN RowTier(rows[k]) ELSE None

\* for idx, row in df_year.iterrows(): the first row that matches and holds a label
RECURSIVE ScanRows(_, _, _)
ScanRows(rows, clean_target, k) ==
    IF k > Len(rows) THEN None
    ELSE IF RowMatches(rows[k], clean_target) /\ RowTier(rows[k]) # None
         THEN RowTier(rows[k])
         ELSE ScanRows(rows, clean_target, k + 1)

\* publication_year in self.scimago_data
YearLoaded(data, publication_year) ==
    publication_year.t = "int" /\ publication_year.v \in DOMAIN data

\* a plausible slip: the normalized target is not tested before the scan
get_scimago_quartile_unchecked_target(data, source_issn, publication_year) ==
    IF source_issn = None \/ source_issn = EmptyStr \/ ~YearLoaded(data, publication_year)
    THEN None
    ELSE ScanRows(data[publication_year.v], normalize_issn(source_issn), 1)

\* get_scimago_quartile(source_issn, publication_year)
get_scimago_quartile(data, source_issn, publication_year) ==
    IF source_issn = None \/ source_issn = EmptyStr \/ ~YearLoaded(data, publication_year)
    THEN None
    ELSE LET clean_target == normalize_issn(source_issn)
         IN IF clean_target = EmptyStr THEN None
            ELSE ScanRows(data[publication_year.v], clean_target, 1)

\* ------------------------------------------------------------------ Python values
\* a value of the program that is not known to be a text carries its type
PyNone == [t |-> "none"]
PyNaN == [t |-> "nan"]
PyInt(n) == [t |-> "int", v |-> n]
PyStr(s) == [t |-> "str", v |-> s]
PyBool(b) == [t |-> "bool", v |-> b]
\* a float that is no whole number, written whole.tenths
PyFloat(whole, tenths) == [t |-> "float", v |-> <<whole, tenths>>]
PyList(l) == [t |-> "list", v |-> l]
PyDict(d) == [t |-> "dict", v |-> d]
EmptyDict == PyDict(<<>>)

\* bool(v)
Truthy(v) ==
    CASE v.t = "none" -> FALSE
      [] v.t = "nan" -> TRUE
      [] v.t = "int" -> v.v # 0
      [] v.t = "bool" -> v.v
      [] v.t = "float" -> TRUE
      [] v.t = "str" -> Len(v.v) > 0
      [] v.t = "list" -> Len(v.v) > 0
      [] v.t = "dict" -> DOMAIN v.v # {}

\* pd.isna(v) of a scalar
IsNa(v) == v.t \in {"none", "nan"}

\* d.get(key, default) and d.get(key) of a dict d
GetOr(d, key, default) == IF key \in DOMAIN d.v THEN d.v[key] ELSE default
Get(d, key) == GetOr(d, key, PyNone)

\* the argument normalize_issn sees for a value
IssnArg(v) == IF v.t = "none" THEN None ELSE IF v.t = "nan" THEN NaN ELSE v.v

\* ------------------------------------------------------------------ work identifiers
URL_PREFIX == <<"h", "t", "t", "p", "s", ":", "/", "/", "o", "p", "e", "n", "a", "l", "e",
                "x", ".", "o", "r", "g", "/">>
W1 == <<"W", "1">>
W2 == <<"W", "2">>

\* str.replace(old, ""): every occurrence, left to right
RECURSIVE ReplaceSub(_, _)
ReplaceSub(s, old) ==
    IF Len(s) < Len(old) THEN s
    ELSE IF SubSeq(s, 1, Len(old)) = old
         THEN ReplaceSub(SubSeq(s, Len(old) + 1, Len(s)), old)
         ELSE <<Head(s)>> \o ReplaceSub(Tail(s), old)

\* normalize_openalex_id(x)
normalize_openalex_id(x) ==
    IF IsNa(x) THEN EmptyStr ELSE Strip(ReplaceSub(x.v, URL_PREFIX))

\* ------------------------------------------------------------------ the External Record Fetcher
\* what one request to the external source ends in
StatusOk == 200
Response(status, body) == [kind |-> "response", status |-> status, body |-> body]
TransportFailure == [kind |-> "exception"]
UnparseableBody == [t |-> "unparseable"]

Succeeds(outcome) ==
    outcome.kind = "response" /\ outcome.status = StatusOk /\ outcome.body # UnparseableBody

\* a plausible slip: the failure is memoized too
get_work_details_single_caching_failures(cache, work_id_clean, outcome) ==
    IF work_id_clean = EmptyStr
    THEN [ret |-> PyNone, cache |-> cache, contacted |-> FALSE]
    ELSE IF work_id_clean \in DOMAIN cache
    THEN [ret |-> cache[work_id_clean], cache |-> cache, contacted |-> FALSE]
    ELSE [ret |-> IF Succeeds(outcome) THEN outcome.body ELSE PyNone,
          cache |-> cache @@ (work_id_clean :> IF Succeeds(outcome) THEN outcome.body ELSE PyNone),
          contacted |-> TRUE]

\* a plausible slip: the record is returned but never stored
get_work_details_single_not_storing(cache, work_id_clean, outcome) ==
    IF work_id_clean = EmptyStr
    THEN [ret |-> PyNone, cache |-> cache, contacted |-> FALSE]
    ELSE IF work_id_clean \in DOMAIN cache
    THEN [ret |-> cache[work_id_clean], cache |-> cache, contacted |-> FALSE]
    ELSE [ret |-> IF Succeeds(outcome) THEN outcome.body ELSE PyNone,
          cache |-> cache,
          contacted |-> TRUE]

\* a plausible slip: no test of the identifier before the cache and the request
get_work_details_single_unguarded(cache, work_id_clean, outcome) ==
    IF work_id_clean \in DOMAIN cache
    THEN [ret |-> cache[work_id_clean], cache |-> cache, contacted |-> FALSE]
    ELSE IF Succeeds(outcome)
    THEN [ret |-> outcome.body,
          cache |-> cache @@ (work_id_clean :> outcome.body),
          contacted |-> TRUE]
    ELSE [ret |-> PyNone, cache |-> cache, contacted |-> TRUE]

\* get_work_details_single(work_id_clean), given what the request would end in:
\* the value returned, the cache afterwards, and whether the source was contacted
get_work_details_single(cache, work_id_clean, outcome) ==
    IF work_id_clean = EmptyStr
    THEN [ret |-> PyNone, cache |-> cache, contacted |-> FALSE]
    ELSE IF work_id_clean \in DOMAIN cache
    THEN [ret |-> cache[work_id_clean], cache |-> cache, contacted |-> FALSE]
    ELSE IF Succeeds(outcome)
    THEN [ret |-> outcome.body,
          cache |-> cache @@ (work_id_clean :> outcome.body),
          contacted |-> TRUE]
    ELSE [ret |-> PyNone, cache |-> cache, contacted |-> TRUE]

\* ------------------------------------------------------------------ the Record Enricher
\* a or b
Or(a, b) == IF Truthy(a) THEN a ELSE b

\* sep.join(texts)
RECURSIVE Join(_, _)
Join(texts, sep) ==
    IF texts = <<>> THEN EmptyStr
    ELSE IF Len(texts) = 1 THEN texts[1]
    ELSE texts[1] \o sep \o Join(Tail(texts), sep)

\* original_rows.iloc[0] of df_all[df_all["work_id_clean"] == wid]: the index
\* of the first row with that identifier, 0 when there is none
FirstOriginal(df, wid) ==
    LET ks == {k \in 1..Len(df.rows) : df.rows[k]["work_id_clean"] = wid}
    IN IF ks = {} THEN 0 ELSE CHOOSE k \in ks : \A j \in ks : k <= j

\* orig.get(column, default) of a row of df
RowGet(df, row, column, default) == IF column \in df.columns THEN row[column] ELSE default

\* a plausible slip: the record of a failed fetch built from the defaults alone
AbsentRow_defaults_only(df, orig) ==
    [work_id |-> orig["work_id"],
     doi |-> PyNone,
     title |-> PyNone,
     abstract |-> PyNone,
     publication_year |-> PyNone,
     publication_date |-> PyNone,
     type |-> PyNone,
     language |-> PyNone,
     cited_by_count |-> PyInt(0),
     open_access_is_oa |-> PyBool(FALSE),
     open_access_oa_status |-> PyStr(EmptyStr),
     source_name |-> PyNone,
     source_type |-> PyNone,
     source_issn_l |-> PyNone,
     source_issn |-> <<>>,
     multi_institution |-> PyBool(FALSE),
     multi_country |-> PyBool(FALSE),
     authors_count |-> PyInt(0),
     institutions_count |-> PyInt(0),
     concepts_list |-> EmptyStr,
     venue_issn_list |-> EmptyStr,
     is_scopus_indexed |-> FALSE,
     scimago_quartile |-> None]

\* the record built from the raw fields alone, when the fetch returned nothing
AbsentRow(df, orig) ==
    [work_id |-> orig["work_id"],
     doi |-> PyNone,
     title |-> PyNone,
     abstract |-> PyNone,
     publication_year |-> RowGet(df, orig, "publication_year", PyNone),
     publication_date |-> RowGet(df, orig, "publication_date", PyNone),
     type |-> RowGet(df, orig, "type", PyNone),
     language |-> RowGet(df, orig, "language", PyNone),
     cited_by_count |-> RowGet(df, orig, "cited_by_count", PyInt(0)),
     open_access_is_oa |-> RowGet(df, orig, "open_access_is_oa", PyBool(FALSE)),
     open_access_oa_status |-> RowGet(df, orig, "open_access_oa_status", PyStr(EmptyStr)),
     source_name |-> PyNone,
     source_type |-> PyNone,
     source_issn_l |-> PyNone,
     source_issn |-> <<>>,
     multi_institution |-> RowGet(df, orig, "multi_institution", PyBool(FALSE)),
     multi_country |-> RowGet(df, orig, "multi_country", PyBool(FALSE)),
     authors_count |-> RowGet(df, orig, "authors_count", PyInt(0)),
     institutions_count |-> RowGet(df, orig, "institutions_count", PyInt(0)),
     concepts_list |-> EmptyStr,
     venue_issn_list |-> EmptyStr,
     is_scopus_indexed |-> FALSE,
     scimago_quartile |-> None]

\* work.get("primary_location", {}).get("source", {}) or {}; the first get
\* answers None for a key that is present and null, and None has no get
PrimaryLocation(work) == GetOr(work, "primary_location", EmptyDict)
PrimarySource(work) == Or(GetOr(PrimaryLocation(work), "source", EmptyDict), EmptyDict)
OpenAccess(work) == GetOr(work, "open_access", EmptyDict)

\* the exception the processing of a fetched record ends in, "" when none:
\* AttributeError for a null primary_location or open_access, TypeError for
\* a null concepts or topics
ProcessingError(work) ==
    IF PrimaryLocation(work).t # "dict" THEN "AttributeError"
    ELSE IF OpenAccess(work).t # "dict" THEN "AttributeError"
    ELSE IF GetOr(work, "concepts", PyList(<<>>)).t # "list" THEN "TypeError"
    ELSE IF GetOr(work, "topics", PyList(<<>>)).t # "list" THEN "TypeError"
    ELSE ""

\* the identifiers as collected: issn_l, then the elements of issn (a list) or
\* the non-empty trimmed pieces of str(issn) split at commas
CollectedIssns(primary_source) ==
    LET issn_l == Get(primary_source, "issn_l")
        issn_field == Get(primary_source, "issn")
        pieces == Split(issn_field.v, ",")
        trimmed == [k \in 1..Len(pieces) |-> Strip(pieces[k])]
    IN (IF Truthy(issn_l) THEN <<IssnArg(issn_l)>> ELSE <<>>)
        \o (IF ~Truthy(issn_field) THEN <<>>
            ELSE IF issn_field.t = "list"
                 THEN [k \in 1..Len(issn_field.v) |-> IssnArg(issn_field.v[k])]
                 ELSE SelectSeq(trimmed, LAMBDA piece : piece # EmptyStr))

\* set([normalize_issn(x) for x in issn_list]) without the empty text
IssnSet(primary_source) ==
    LET collected == CollectedIssns(primary_source)
    IN {normalize_issn(collected[k]) : k \in 1..Len(collected)} \ {EmptyStr}

\* the orders in which the elements of a set may be iterated
Orders(S) ==
    {order \in [1..Cardinality(S) -> S] : \A e \in S : \E k \in 1..Cardinality(S) : order[k] = e}

\* the display names of the entries of work[key] that have one
DisplayNames(work, key) ==
    LET entries == GetOr(work, key, PyList(<<>>)).v
        named == SelectSeq(entries, LAMBDA c : Truthy(Get(c, "display_name")))
    IN [k \in 1..Len(named) |-> Get(named[k], "display_name").v]

TXT_other == <<"o", "t", "h", "e", "r">>

\* ";".join of the concept names followed by the topic names, "other" left out
ConceptsList(work) ==
    Join(SelectSeq(DisplayNames(work, "concepts") \o DisplayNames(work, "topics"),
                   LAMBDA c : Lower(c) # TXT_other),
         <<";">>)

\* a plausible slip: the tier of the last identifier that resolves
RECURSIVE FirstQuartile_last(_, _, _, _)
FirstQuartile_last(data, issn_list, pub_year, k) ==
    IF k > Len(issn_list) THEN None
    ELSE LET later == FirstQuartile_last(data, issn_list, pub_year, k + 1)
         IN IF later # None THEN later
            ELSE get_scimago_quartile(data, issn_list[k], pub_year)

\* for issn in issn_list: the first tier get_scimago_quartile answers
RECURSIVE FirstQuartile(_, _, _, _)
FirstQuartile(data, issn_list, pub_year, k) ==
    IF k > Len(issn_list) THEN None
    ELSE LET q == get_scimago_quartile(data, issn_list[k], pub_year)
         IN IF q # None THEN q ELSE FirstQuartile(data, issn_list, pub_year, k + 1)

\* the record built from a fetched work and the first raw row of its
\* identifier; issn_list is the identifier set in the order it was iterated
EnrichedRow(df, original_row, work, issn_list, sources, data) ==
    LET primary_source == PrimarySource(work)
        pub_year == Or(Get(work, "publication_year"),
                       RowGet(df, original_row, "publication_year", PyNone))
    IN [work_id |-> original_row["work_id"],
        doi |-> Get(work, "doi"),
        title |-> Get(work, "title"),
        abstract |-> Get(work, "abstract"),
        publication_year |-> pub_year,
        publication_date |-> Or(Get(work, "publication_date"),
                                RowGet(df, original_row, "publication_date", PyNone)),
        type |-> Or(Get(work, "type"), RowGet(df, original_row, "type", PyNone)),
        language |-> Or(Get(work, "language"), RowGet(df, original_row, "language", PyNone)),
        cited_by_count |-> GetOr(work, "cited_by_count", PyInt(0)),
        open_access_is_oa |-> GetOr(OpenAccess(work), "is_oa", PyBool(FALSE)),
        open_access_oa_status |-> GetOr(OpenAccess(work), "oa_status", PyStr(EmptyStr)),
        source_name |-> Get(primary_source, "display_name"),
        source_type |-> Get(primary_source, "type"),
        source_issn_l |-> Get(primary_source, "issn_l"),
        source_issn |-> issn_list,
        multi_institution |-> RowGet(df, original_row, "multi_institution", PyBool(FALSE)),
        multi_country |-> RowGet(df, original_row, "multi_country", PyBool(FALSE)),
        authors_count |-> RowGet(df, original_row, "authors_count", PyInt(0)),
        institutions_count |-> RowGet(df, original_row, "institutions_count", PyInt(0)),
        concepts_list |-> ConceptsList(work),
        venue_issn_list |-> Join(issn_list, <<";">>),
        is_scopus_indexed |-> is_scopus_indexed(sources, issn_list),
        scimago_quartile |->
            IF issn_list # <<>> /\ Truthy(pub_year)
            THEN FirstQuartile(data, issn_list, pub_year, 1)
            ELSE None]

\* ------------------------------------------------------------------ tables
\* a DataFrame: its columns, and its rows with their index labels
Frame(columns, index, rows) == [columns |-> columns, index |-> index, rows |-> rows]

\* the columns of the records enhance_all_dataset builds
RowColumns ==
    {"work_id", "doi", "title", "abstract", "publication_year", "publication_date", "type",
     "language", "cited_by_count", "open_access_is_oa", "open_access_oa_status",
     "source_name", "source_type", "source_issn_l", "source_issn", "multi_institution",
     "multi_country", "authors_count", "institutions_count", "concepts_list",
     "venue_issn_list", "is_scopus_indexed", "scimago_quartile"}

\* the defaults of ensure_all_columns_exist
ColumnDefaults ==
    [is_scopus_indexed |-> FALSE,
     scimago_quartile |-> None,
     source_name |-> PyNone,
     source_type |-> PyNone,
     source_issn_l |-> PyNone,
     source_issn |-> <<>>,
     concepts_list |-> EmptyStr,
     venue_issn_list |-> EmptyStr,
     abstract |-> PyNone,
     open_access_is_oa |-> PyBool(FALSE),
     open_access_oa_status |-> PyStr(EmptyStr),
     publication_year |-> PyNone,
     cited_by_count |-> PyInt(0),
     multi_institution |-> PyBool(FALSE),
     multi_country |-> PyBool(FALSE),
     authors_count |-> PyInt(0),
     institutions_count |-> PyInt(0)]

\* ensure_all_columns_exist(df): every default column the frame lacks is added,
\* the columns it has are left as they are
ensure_all_columns_exist(df) ==
    LET columns == df.columns \cup DOMAIN ColumnDefaults
    IN Frame(columns, df.index,
             [k \in 1..Len(df.rows) |->
                 [c \in columns |->
                     IF c \in df.columns THEN df.rows[k][c] ELSE ColumnDefaults[c]]])

\* pd.DataFrame(enhanced_rows): a RangeIndex from 0, no column for no row
DataFrameOf(rows) ==
    Frame(IF rows = <<>> THEN {} ELSE RowColumns, [k \in 1..Len(rows) |-> k - 1], rows)

\* int(text) of a text of digits
DigitSeq == <<"0", "1", "2", "3", "4", "5", "6", "7", "8", "9">>
DigitValue(c) == (CHOOSE k \in 1..Len(DigitSeq) : DigitSeq[k] = c) - 1
RECURSIVE ParseDigits(_)
ParseDigits(text) ==
    IF text = <<>> THEN 0
    ELSE 10 * ParseDigits(SubSeq(text, 1, Len(text) - 1)) + DigitValue(text[Len(text)])

\* pd.to_numeric(value, errors="coerce"): NaN for what is no number
ToNumeric(v) ==
    CASE v.t = "int" -> v
      [] v.t = "float" -> v
      [] v.t = "bool" -> PyInt(IF v.v THEN 1 ELSE 0)
      [] v.t = "str" ->
            IF Strip(v.v) # <<>> /\ \A k \in 1..Len(Strip(v.v)) : Strip(v.v)[k] \in Digits
            THEN PyInt(ParseDigits(Strip(v.v)))
            ELSE PyNaN
      [] OTHER -> PyNaN

\* .astype("Int64"): the missing value stays missing
ToInt64(v) == IF v.t = "nan" THEN PyNone ELSE v
\* .fillna(0).astype(int): a float loses its fraction
FillZero(v) ==
    IF v.t = "nan" THEN PyInt(0) ELSE IF v.t = "float" THEN PyInt(v.v[1]) ELSE v

\* the exception the coercion of the two columns ends in, "" when none:
\* .astype("Int64") refuses a publication_year that is no whole number
CoercionError(rows) ==
    IF \E k \in 1..Len(rows) : ToNumeric(rows[k]["publication_year"]).t = "float"
    THEN "TypeError"
    ELSE ""

\* the end of enhance_all_dataset: the frame of the records, the missing
\* columns added, publication_year and cited_by_count made numeric
FinishEnhanced(rows) ==
    LET df == ensure_all_columns_exist(DataFrameOf(rows))
    IN Frame(df.columns, df.index,
             [k \in 1..Len(df.rows) |->
                 [c \in df.columns |->
                     IF c = "publication_year" THEN ToInt64(ToNumeric(df.rows[k][c]))
                     ELSE IF c = "cited_by_count" THEN FillZero(ToNumeric(df.rows[k][c]))
                     ELSE df.rows[k][c]]])

\* ------------------------------------------------------------------ the Corpus Filter
\* df[mask]: the rows the mask keeps, with their index labels
Select(df, Keep(_)) ==
    LET ks == {k \in 1..Len(df.rows) : Keep(df.rows[k])}
        Nth(n) == CHOOSE k \in ks : Cardinality({j \in ks : j < k}) = n - 1
    IN Frame(df.columns,
             [n \in 1..Cardinality(ks) |-> df.index[Nth(n)]],
             [n \in 1..Cardinality(ks) |-> df.rows[Nth(n)]])

\* a plausible slip: the three tiers whatever the threshold
ValidQuartiles_always_three(quartile_threshold) == {Q1, Q2, Q3}

\* a plausible slip: the tiers up to the threshold given
ValidQuartiles_up_to_threshold(quartile_threshold) ==
    IF quartile_threshold = Q1 THEN {Q1}
    ELSE IF quartile_threshold = Q3 THEN {Q1, Q2, Q3}
    ELSE IF quartile_threshold = Q4 THEN {Q1, Q2, Q3, Q4}
    ELSE {Q1, Q2}

\* valid_quartiles
ValidQuartiles(quartile_threshold) ==
    IF quartile_threshold = Q3 THEN {Q1, Q2, Q3} ELSE {Q1, Q2}

\* a plausible slip: the indexing filter applied with an empty registry too
ScopusFiltered_always(df, sources) ==
    Select(df, LAMBDA row : row["is_scopus_indexed"] = TRUE)

\* step 1: the indexed records when the registry is not empty, else all records
ScopusFiltered(df, sources) ==
    IF sources # {}
    THEN Select(df, LAMBDA row : row["is_scopus_indexed"] = TRUE)
    ELSE df

\* a plausible slip: the worst tier present in the table is refused as well
create_strict_dataset_refusing_worst(df, quartile_threshold, sources) ==
    LET present == {df.rows[k]["scimago_quartile"] : k \in 1..Len(df.rows)}
        worst == IF Q4 \in present THEN Q4 ELSE IF Q3 \in present THEN Q3
                 ELSE IF Q2 \in present THEN Q2 ELSE Q1
    IN Select(ScopusFiltered(ensure_all_columns_exist(df), sources),
              LAMBDA row : row["scimago_quartile"]
                               \in ValidQuartiles(quartile_threshold) \ {worst})

\* create_strict_dataset(df_enhanced, quartile_threshold)
create_strict_dataset(df, quartile_threshold, sources) ==
    Select(ScopusFiltered(ensure_all_columns_exist(df), sources),
           LAMBDA row : row["scimago_quartile"] \in ValidQuartiles(quartile_threshold))

\* ------------------------------------------------------------------ state
VARIABLES
    pc,     \* the position of the running operation
    arg,    \* the argument of the operation under check
    ret,    \* its result
    ret2,   \* the result of applying it again to ret
    scopus_file,      \* the file "Scopus Source/scopus_sources.csv"
    scimago_files,    \* the files of the directory "SCImago", per year and candidate name
    works_all_file,   \* the file "works_all.csv" of the processed-data directory
    openalex,         \* the bodies the external source may answer with in this run
    scopus_sources,   \* self.scopus_sources
    scimago_data,     \* self.scimago_data
    openalex_cache,   \* self._openalex_cache
    df_all,           \* the table given to enhance_all_dataset
    quartile_threshold,   \* the threshold given to create_datasets or create_strict_dataset
    works_details,    \* the (wid, detail) pairs of its first loop
    cursor,           \* how many of them the second loop has processed
    enhanced_rows,    \* the records built so far
    df_enhanced,      \* the frame enhance_all_dataset returned
    strict,           \* the frame create_strict_dataset returned
    outputs,          \* the files save_datasets has written
    calls             \* history: the get_work_details_single calls of this run

normVars == <<arg, ret, ret2>>
envVars == <<scopus_file, scimago_files, works_all_file, openalex>>
creatorVars == <<scopus_sources, scimago_data, openalex_cache>>
fetchVars == <<works_details, calls>>
outVars == <<cursor, enhanced_rows, df_enhanced, strict, outputs>>
pipeVars == <<df_all, quartile_threshold, fetchVars, outVars>>
vars == <<pc, normVars, envVars, creatorVars, pipeVars>>

Pending == <<"Pending">>
NoFile == [exists |-> FALSE]
EmptyCache == <<>>
NoScimagoFiles == [y \in CollectionYears |-> [k \in 1..Len(Candidates) |-> NoFile]]
NoTable == [columns |-> {}, rows |-> <<>>]
NoFrame == Frame({}, <<>>, <<>>)

NoRequest == [kind |-> "none"]
Raised(name, operation) == [t |-> "exception", v |-> name, at |-> operation]

\* the values of the variables an operation does not use
NormIdle == arg = Pending /\ ret = Pending /\ ret2 = Pending
OutIdle ==
    /\ cursor = 0
    /\ enhanced_rows = <<>>
    /\ df_enhanced = NoFrame
    /\ strict = NoFrame
    /\ outputs = <<>>
PipeIdle ==
    /\ df_all = NoTable
    /\ quartile_threshold = Q3
    /\ works_details = <<>>
    /\ calls = <<>>
    /\ OutIdle


\* ------------------------------------------------------------------ SpecNorm
NormInputs == TextsUpTo(MaxLen) \cup {None, NaN}

InitNorm ==
    /\ pc = "norm_start"
    /\ arg \in NormInputs
    /\ ret = Pending
    /\ ret2 = Pending
    /\ scopus_file = NoFile
    /\ scimago_files = NoScimagoFiles
    /\ works_all_file = NoFile
    /\ openalex = {}
    /\ scopus_sources = {}
    /\ scimago_data = load_scimago_data(scimago_files)
    /\ openalex_cache = EmptyCache
    /\ PipeIdle

\* r = normalize_issn(x)
Normalize ==
    /\ pc = "norm_start"
    /\ ret' = normalize_issn(arg)
    /\ pc' = "norm_once"
    /\ UNCHANGED <<arg, ret2, envVars, creatorVars, pipeVars>>

\* normalize_issn(r)
NormalizeAgain ==
    /\ pc = "norm_once"
    /\ ret2' = normalize_issn(ret)
    /\ pc' = "norm_twice"
    /\ UNCHANGED <<arg, ret, envVars, creatorVars, pipeVars>>

NextNorm == Normalize \/ NormalizeAgain

SpecNorm == InitNorm /\ [][NextNorm]_vars

IsText(v) == v # None /\ v # NaN /\ v # Pending /\ \A k \in 1..Len(v) : v[k] \in Chars

\* C8: normalize_issn is total and idempotent: for every input, None and NaN
\* included, the result is a string (never None) that is upper-case, has no
\* hyphen and no leading or trailing whitespace, and normalizing the result
\* again gives the same result.
C8_NormalizeTotalIdempotent ==
    /\ pc \in {"norm_once", "norm_twice"} =>
          /\ IsText(ret)
          /\ \A k \in 1..Len(ret) : ret[k] # "-" /\ UpperChar(ret[k]) = ret[k]
          /\ ret # <<>> => (ret[1] \notin Whitespace /\ ret[Len(ret)] \notin Whitespace)
          /\ (arg = None \/ arg = NaN) => ret = EmptyStr
    /\ pc = "norm_twice" => ret2 = ret

\* a text with a hyphen between blanks and a lower-case letter has been
\* normalized twice
C8_Witness ==
    /\ pc = "norm_twice"
    /\ arg = <<" ", "-", " ", "x">>
    /\ ret = <<"X">>

\* ------------------------------------------------------------------ SpecRegistry
Column(name, vals) == [name |-> name, vals |-> vals]
ScopusTable(cols) == [exists |-> TRUE, readable |-> TRUE, columns |-> cols]
ScopusFiles ==
    { NoFile,
      [exists |-> TRUE, readable |-> FALSE],
      ScopusTable(<<Column(COL_Title, <<ISSN_C>>), Column(COL_ISSN, <<Hyphenated(ISSN_A)>>)>>),
      ScopusTable(<<Column(COL_ISSN, <<Hyphenated(ISSN_A), NaN>>),
                    Column(COL_EISSN, <<NaN, Variant(ISSN_B, <<"-">>, TRUE, 0, 1)>>)>>),
      ScopusTable(<<Column(COL_Issn, <<SubSeq(ISSN_A, 1, 7)>>),
                    Column(COL_issn, <<ISSN_B \o <<"1">>, ISSN_C>>)>>),
      ScopusTable(<<Column(COL_eISSN, <<Hyphenated(ISSN_A)>>),
                    Column(COL_Print_ISSN, <<Hyphenated(ISSN_B)>>)>>) }

\* the lists is_scopus_indexed is asked about
RegistryQueries ==
    {<<>>} \cup {<<v>> : v \in Variants(ISSN_A) \cup Variants(ISSN_B)}
        \cup {<<ISSN_C, v>> : v \in {ISSN_A, Hyphenated(ISSN_B)}}

InitRegistry ==
    /\ pc = "reg_new"
    /\ scopus_file \in ScopusFiles
    /\ scimago_files = NoScimagoFiles
    /\ works_all_file = NoFile
    /\ openalex = {}
    /\ scopus_sources = {}
    /\ scimago_data = load_scimago_data(scimago_files)
    /\ openalex_cache = EmptyCache
    /\ NormIdle
    /\ PipeIdle

\* self.scopus_sources = self.load_scopus_sources()
LoadScopusSources ==
    /\ pc = "reg_new"
    /\ scopus_sources' = load_scopus_sources(scopus_file)
    /\ pc' = "reg_loaded"
    /\ UNCHANGED <<normVars, envVars, scimago_data, openalex_cache, pipeVars>>

\* self.is_scopus_indexed(q)
IsScopusIndexed ==
    /\ pc = "reg_loaded"
    /\ \E q \in RegistryQueries :
          /\ arg' = q
          /\ ret' = <<is_scopus_indexed(scopus_sources, q)>>
    /\ pc' = "reg_queried"
    /\ UNCHANGED <<ret2, envVars, creatorVars, pipeVars>>

NextRegistry == LoadScopusSources \/ IsScopusIndexed

SpecRegistry == InitRegistry /\ [][NextRegistry]_vars

\* the registry file lists the identifier in its hyphenated form in a probed column
RegistryBuiltFrom(base) ==
    /\ scopus_file.exists /\ scopus_file.readable
    /\ \E c \in 1..Len(scopus_file.columns) :
          /\ scopus_file.columns[c].name \in ScopusProbedColumns
          /\ \E k \in 1..Len(scopus_file.columns[c].vals) :
                scopus_file.columns[c].vals[k] = Hyphenated(base)

\* C9: Indexing-registry membership is symmetric under normalization: a
\* registry built from "1234-5678" reports every hyphen, case and whitespace
\* variant of the same identifier as indexed, "1234 5678 " (a blank instead of
\* the hyphen, and a trailing blank) included.
C9_MembershipSymmetric ==
    (pc = "reg_queried" /\ RegistryBuiltFrom(ISSN_A) /\ Len(arg) = 1
        /\ arg[1] \in Variants(ISSN_A))
        => ret = <<TRUE>>

\* the 8-character normalized values of the columns of the registry file
\* whose name is among the names given
ValidValuesOf(file, names) ==
    UNION {{clean \in RegistryOfColumn(file.columns[c]) : Len(clean) = ValidIssnLen} :
              c \in {k \in 1..Len(file.columns) : file.columns[k].name \in names}}

\* the names of the columns of the registry file that are or contain "issn",
\* whatever their case
IssnNamedColumns(file) ==
    {file.columns[k].name : k \in {j \in 1..Len(file.columns) :
                                      Contains(Lower(file.columns[j].name), TXT_issn)}}

\* C20: load_scopus_sources returns exactly the set of normalized values of
\* length 8 found in all columns of the registry file whose name,
\* case-insensitively, is or contains "issn" (also "eISSN", "Print-ISSN");
\* every member of the registry is an 8-character normalized identifier, and a
\* missing or unreadable file yields the empty set instead of an error.
C20_RegistryFromAllIssnColumns ==
    pc \in {"reg_loaded", "reg_queried"} =>
        /\ \A member \in scopus_sources :
              Len(member) = ValidIssnLen /\ normalize_issn(member) = member
        /\ IF ~scopus_file.exists THEN scopus_sources = {}
           ELSE IF ~scopus_file.readable THEN scopus_sources = {}
           ELSE scopus_sources = ValidValuesOf(scopus_file, IssnNamedColumns(scopus_file))

\* ------------------------------------------------------------------ SpecFetch
\* the first loop of enhance_all_dataset over tables that repeat identifiers
MaxRows == 3

RECURSIVE SeqsUpTo(_, _)
SeqsUpTo(S, n) ==
    IF n = 0 THEN {<<>>}
    ELSE LET shorter == SeqsUpTo(S, n - 1)
         IN shorter \cup {Append(q, e) : q \in {t \in shorter : Len(t) = n - 1}, e \in S}

Table(columns, rows) == [columns |-> columns, rows |-> rows]

\* a status other than 200 the source answers with
FailureStatuses == {404}

\* what a request may end in: no answer, a failure status, a 200 whose body
\* does not parse, or a 200 with one of the bodies of this run
Outcomes ==
    {TransportFailure} \cup {Response(st, UnparseableBody) : st \in FailureStatuses}
        \cup {Response(StatusOk, UnparseableBody)}
        \cup {Response(StatusOk, body) : body \in openalex}

T_Title == <<"T">>
FetchBodies == {PyDict([title |-> PyStr(T_Title)]), PyDict([title |-> PyNone])}
FetchWorkIds == {PyStr(W1), PyStr(<<" ">> \o URL_PREFIX \o W1), PyStr(W2), PyNaN}
FetchTables ==
    {Table({"work_id"}, rows) : rows \in SeqsUpTo({[work_id |-> w] : w \in FetchWorkIds}, MaxRows)}

InitFetch ==
    /\ pc = "enhance_call"
    /\ scopus_file = NoFile
    /\ scimago_files = NoScimagoFiles
    /\ works_all_file = NoFile
    /\ openalex = FetchBodies
    /\ scopus_sources = load_scopus_sources(scopus_file)
    /\ scimago_data = load_scimago_data(scimago_files)
    /\ openalex_cache = EmptyCache
    /\ df_all \in FetchTables
    /\ quartile_threshold = Q3
    /\ works_details = <<>>
    /\ calls = <<>>
    /\ OutIdle
    /\ NormIdle

\* df_all["work_id_clean"] = df_all["work_id"].apply(normalize_openalex_id)
WithWorkIdClean(df) ==
    Table(df.columns \cup {"work_id_clean"},
          [k \in 1..Len(df.rows) |->
              [c \in df.columns \cup {"work_id_clean"} |->
                  IF c = "work_id_clean"
                  THEN normalize_openalex_id(df.rows[k]["work_id"])
                  ELSE df.rows[k][c]]])

\* enhance_all_dataset(df_all), up to its first loop: KeyError without a
\* work_id column, else the normalized identifiers
EnhanceBegin ==
    /\ pc = "enhance_call"
    /\ IF "work_id" \notin df_all.columns
       THEN /\ pc' = "raised"
            /\ ret' = Raised("KeyError", "enhance_all_dataset")
            /\ UNCHANGED df_all
       ELSE /\ df_all' = WithWorkIdClean(df_all)
            /\ pc' = IF Len(df_all.rows) = 0 THEN "processing" ELSE "fetching"
            /\ UNCHANGED ret
    /\ UNCHANGED <<arg, ret2, envVars, creatorVars, quartile_threshold, fetchVars, outVars>>

\* a plausible slip: the first loop ends at the first fetch that fails
EnhanceFetch_stopping_at_failure ==
    /\ pc = "fetching"
    /\ LET k == Len(works_details) + 1
           wid == df_all.rows[k]["work_id_clean"]
       IN \E outcome \in Outcomes :
             LET r == get_work_details_single(openalex_cache, wid, outcome)
             IN /\ openalex_cache' = r.cache
                /\ works_details' = Append(works_details, [wid |-> wid, detail |-> r.ret])
                /\ calls' = Append(calls,
                                   [id |-> wid, ret |-> r.ret, contacted |-> r.contacted,
                                    outcome |-> IF r.contacted THEN outcome ELSE NoRequest])
                /\ pc' = IF k = Len(df_all.rows) \/ (r.contacted /\ ~Succeeds(outcome))
                         THEN "processing" ELSE "fetching"
    /\ UNCHANGED <<normVars, envVars, scopus_sources, scimago_data, df_all, quartile_threshold,
                   outVars>>

\* one iteration of the first loop: detail = self.get_work_details_single(wid)
EnhanceFetch ==
    /\ pc = "fetching"
    /\ LET k == Len(works_details) + 1
           wid == df_all.rows[k]["work_id_clean"]
       IN \E outcome \in Outcomes :
             LET r == get_work_details_single(openalex_cache, wid, outcome)
             IN /\ openalex_cache' = r.cache
                /\ works_details' = Append(works_details, [wid |-> wid, detail |-> r.ret])
                /\ calls' = Append(calls,
                                   [id |-> wid, ret |-> r.ret, contacted |-> r.contacted,
                                    outcome |-> IF r.contacted THEN outcome ELSE NoRequest])
                /\ pc' = IF k = Len(df_all.rows) THEN "processing" ELSE "fetching"
    /\ UNCHANGED <<normVars, envVars, scopus_sources, scimago_data, df_all, quartile_threshold,
                   outVars>>

NextFetch == EnhanceBegin \/ EnhanceFetch

SpecFetch == InitFetch /\ [][NextFetch]_vars

\* the calls that contacted the external source for an identifier
Contacts(id) == {k \in 1..Len(calls) : calls[k].id = id /\ calls[k].contacted}
CalledIds == {calls[k].id : k \in 1..Len(calls)}
Succeeded(k) == calls[k].contacted /\ Succeeds(calls[k].outcome)
Failed(k) == calls[k].contacted /\ ~Succeeds(calls[k].outcome)

\* C1: over any sequence of get_work_details_single calls of one run, the
\* external source is contacted at most once for each unique work identifier,
\* whatever mix of successes and failures it answers with.
C1_AtMostOneContact ==
    \A id \in CalledIds : Cardinality(Contacts(id)) <= 1

\* C1, amended: the external source is contacted at most once for each unique
\* work identifier once a fetch of it has succeeded: no call after a success
\* contacts it, so every contact but the last one for an identifier is a failure.
C1_AtMostOneContactAfterSuccess ==
    \A k \in 1..Len(calls) : \A j \in 1..Len(calls) :
        (k < j /\ calls[j].id = calls[k].id /\ Succeeded(k)) => ~calls[j].contacted

\* an identifier was fetched with success and then asked for again
C1_Witness ==
    \E k \in 1..Len(calls) : \E j \in 1..Len(calls) :
        k < j /\ calls[j].id = calls[k].id /\ Succeeded(k)

\* C2: once a call for an identifier got a 200 with a record, the record is in
\* the cache under that identifier when it is returned, every later call with
\* the identifier returns that record without contacting the source, no cache
\* entry is removed or overwritten (every entry is the record of the successful
\* call for its key, in every later state), and the cache of a new creator is
\* empty.
C2_SuccessIsMemoized ==
    /\ \A k \in 1..Len(calls) :
          Succeeded(k) =>
              /\ calls[k].ret = calls[k].outcome.body
              /\ calls[k].id \in DOMAIN openalex_cache
              /\ openalex_cache[calls[k].id] = calls[k].outcome.body
              /\ \A j \in (k + 1)..Len(calls) :
                    calls[j].id = calls[k].id =>
                        ~calls[j].contacted /\ calls[j].ret = calls[k].outcome.body
    /\ \A id \in DOMAIN openalex_cache :
          \E k \in 1..Len(calls) : calls[k].id = id /\ Succeeded(k)
    /\ calls = <<>> => openalex_cache = EmptyCache

\* a record was fetched, a failure for another identifier followed, and the
\* first identifier was asked for again
C2_Witness ==
    /\ Len(calls) = 3
    /\ Succeeded(1) /\ Failed(2) /\ calls[3].id = calls[1].id
    /\ calls[3].ret = PyDict([title |-> PyStr(T_Title)])

\* C3: failures are not cached: a call that ends in a status other than 200 or
\* in a transport failure returns None and leaves no cache entry for its
\* identifier, and the next call with that identifier contacts the source again.
C3_FailuresNotCached ==
    \A k \in 1..Len(calls) :
        (Failed(k) /\ (calls[k].outcome.kind = "exception"
                          \/ calls[k].outcome.status # StatusOk)) =>
            /\ calls[k].ret = PyNone
            /\ (\A j \in (k + 1)..Len(calls) : calls[j].id # calls[k].id)
                  => calls[k].id \notin DOMAIN openalex_cache
            /\ \A j \in (k + 1)..Len(calls) :
                  (calls[j].id = calls[k].id
                      /\ \A m \in (k + 1)..(j - 1) : calls[m].id # calls[k].id)
                      => calls[j].contacted

\* a failure status, then the same identifier again
C3_Witness ==
    /\ Len(calls) >= 2
    /\ Failed(1) /\ calls[1].outcome.kind = "response" /\ calls[1].outcome.status = 404
    /\ calls[2].id = calls[1].id /\ calls[2].contacted

\* C13: get_work_details_single never raises: a status other than 200, a
\* transport failure or timeout, and a body that does not parse each yield
\* None, and in each of these cases the cache is left as it was and the
\* caller goes on.
C13_FailureYieldsAbsent ==
    [][(Len(calls') = Len(calls) + 1
            /\ calls'[Len(calls')].contacted
            /\ ~Succeeds(calls'[Len(calls')].outcome))
        => /\ calls'[Len(calls')].ret = PyNone
           /\ works_details'[Len(works_details')].detail = PyNone
           /\ openalex_cache' = openalex_cache
           /\ pc' \in {"fetching", "processing"}]_vars

\* with a record in the cache, the next identifier met a 200 whose body does
\* not parse and then a transport failure
C13_Witness ==
    /\ Len(calls) = 3
    /\ Succeeded(1)
    /\ Failed(2) /\ calls[2].outcome = Response(StatusOk, UnparseableBody)
    /\ Failed(3) /\ calls[3].outcome = TransportFailure
    /\ DOMAIN openalex_cache = {calls[1].id}

\* C14: get_work_details_single called with an empty identifier returns None
\* without contacting the external source and without reading or changing
\* the cache: the cache is the same afterwards, and the answer is None even
\* for a cache that holds a record under the empty identifier.
C14_EmptyIdentifierAbsent ==
    [][(Len(calls') = Len(calls) + 1 /\ calls'[Len(calls')].id = EmptyStr)
        => /\ calls'[Len(calls')].ret = PyNone
           /\ ~calls'[Len(calls')].contacted
           /\ calls'[Len(calls')].outcome = NoRequest
           /\ openalex_cache' = openalex_cache
           /\ \A body \in openalex : \A outcome \in Outcomes :
                 LET cache == openalex_cache @@ (EmptyStr :> body)
                 IN get_work_details_single(cache, EmptyStr, outcome)
                        = [ret |-> PyNone, cache |-> cache, contacted |-> FALSE]]_vars

\* a record without a work identifier followed one whose record was fetched
\* and stored
C14_Witness ==
    /\ Len(calls) >= 2
    /\ Succeeded(1) /\ openalex_cache # EmptyCache
    /\ df_all.rows[2]["work_id"] = PyNaN
    /\ calls[2].id = EmptyStr /\ calls[2].ret = PyNone /\ ~calls[2].contacted

\* C26: one enrichment pass is strictly sequential: enhance_all_dataset issues
\* exactly one get_work_details_single call per input record, in input order,
\* each call contacts the external source at most once (no retry), and a
\* failed fetch for record i resolves to None and never prevents the fetch
\* calls for the records after i.
C26_OneCallPerRecordInOrder ==
    /\ Len(calls) = Len(works_details) /\ Len(calls) <= Len(df_all.rows)
    /\ \A k \in 1..Len(calls) :
          /\ calls[k].id = df_all.rows[k]["work_id_clean"]
          /\ works_details[k] = [wid |-> calls[k].id, detail |-> calls[k].ret]
          /\ calls[k].contacted <=> calls[k].outcome # NoRequest
          /\ Failed(k) => calls[k].ret = PyNone
    /\ pc = "fetching" => Len(calls) < Len(df_all.rows) /\ ENABLED EnhanceFetch
    /\ pc = "processing" => Len(calls) = Len(df_all.rows)
    /\ pc = "raised" => calls = <<>>

\* the fetch of the first record failed, and the two records after it were
\* fetched, the last one with success
C26_Witness ==
    /\ pc = "processing"
    /\ Len(df_all.rows) = 3 /\ Len(calls) = 3
    /\ Failed(1) /\ calls[2].contacted /\ Succeeded(3)

\* ------------------------------------------------------------------ SpecQuartile
SciFile(columns, rows) ==
    [exists |-> TRUE, readable |-> TRUE, columns |-> columns, rows |-> rows]
UnreadableFile == [exists |-> TRUE, readable |-> FALSE]
Cells2(c1, v1, c2, v2) == (c1 :> v1) @@ (c2 :> v2)
Cells3(c1, v1, c2, v2, c3, v3) == (c1 :> v1) @@ (c2 :> v2) @@ (c3 :> v3)

\* A and B in one cell with tier Q2, then C without a label, then C with Q3
SciFileOne ==
    SciFile({COL_Issn_padded, COL_SJR_Quartile},
            << Cells2(COL_Issn_padded, ISSN_A \o <<",", " ">> \o ISSN_B, COL_SJR_Quartile, Q2),
               Cells2(COL_Issn_padded, ISSN_C, COL_SJR_Quartile, <<"-">>),
               Cells2(COL_Issn_padded, ISSN_C, COL_SJR_Quartile, Q3) >>)
\* A, followed by a comma, with Q1 before Q3 in the tier columns, and B with
\* tier Q4 in the last tier column, under other column names
SciFileTwo ==
    SciFile({COL_Print_ISSN_spaced, COL_Quartile, COL_SJR},
            << Cells3(COL_Print_ISSN_spaced, Hyphenated(ISSN_A) \o <<",">>, COL_Quartile, Q1,
                      COL_SJR, Q3),
               Cells3(COL_Print_ISSN_spaced, NaN, COL_Quartile, Q1, COL_SJR, Q1),
               Cells3(COL_Print_ISSN_spaced, Lower(ISSN_B), COL_Quartile, NaN, COL_SJR, Q4) >>)
SciFileChoices == {NoFile, UnreadableFile, SciFileOne, SciFileTwo}

\* the year whose files vary in the model
FixtureYear == 2022
ScimagoWorlds ==
    {[y \in CollectionYears |->
         IF y = FixtureYear THEN fs ELSE [k \in 1..Len(Candidates) |-> NoFile]] :
        fs \in [1..Len(Candidates) -> SciFileChoices]}

QuartileTargets ==
    {None, EmptyStr, <<"-">>, ISSN_C, Variant(ISSN_A, <<"-">>, FALSE, 1, 0),
     Variant(ISSN_B, <<>>, TRUE, 0, 0)}
QuartileYears == {PyInt(FixtureYear), PyInt(FixtureYear + 1), PyNaN}

InitQuartile ==
    /\ pc = "sci_new"
    /\ scopus_file = NoFile
    /\ scimago_files \in ScimagoWorlds
    /\ works_all_file = NoFile
    /\ openalex = {}
    /\ scopus_sources = {}
    /\ scimago_data = <<>>
    /\ openalex_cache = EmptyCache
    /\ NormIdle
    /\ PipeIdle

\* self.scimago_data = self.load_scimago_data()
LoadScimagoData ==
    /\ pc = "sci_new"
    /\ scimago_data' = load_scimago_data(scimago_files)
    /\ pc' = "sci_loaded"
    /\ UNCHANGED <<normVars, envVars, scopus_sources, openalex_cache, pipeVars>>

\* self.get_scimago_quartile(source_issn, publication_year)
GetScimagoQuartile ==
    /\ pc = "sci_loaded"
    /\ \E source_issn \in QuartileTargets, publication_year \in QuartileYears :
          /\ arg' = <<source_issn, publication_year>>
          /\ ret' = get_scimago_quartile(scimago_data, source_issn, publication_year)
    /\ pc' = "sci_queried"
    /\ UNCHANGED <<ret2, envVars, creatorVars, pipeVars>>

NextQuartile == LoadScimagoData \/ GetScimagoQuartile

SpecQuartile == InitQuartile /\ [][NextQuartile]_vars

\* the rows of the year's table that match the target and hold a tier label
TieredMatches(rows, target) ==
    {k \in 1..Len(rows) : RowMatches(rows[k], normalize_issn(target)) /\ RowTier(rows[k]) # None}

\* the rows of the year's table, the rows read from the Eastern-Europe file(s)
\* before the rows read from the Western-Europe file(s), in file row order
RegionOrder(rows) ==
    SelectSeq(rows, LAMBDA r : r[COL_Region] = REGION_EAST)
        \o SelectSeq(rows, LAMBDA r : r[COL_Region] = REGION_WEST)

\* C7: get_scimago_quartile is a deterministic first-match lookup: when several
\* rows of the year's table match the identifier with different tiers, the
\* result is the tier of the first matching row in file-concatenation order,
\* the rows of the Eastern-Europe file before the rows of the Western-Europe
\* file and then in the row order of the file, never a later row's tier.
C7_FirstMatchInRegionOrder ==
    (pc = "sci_queried" /\ arg[1] # None /\ YearLoaded(scimago_data, arg[2]))
        => LET rows == RegionOrder(scimago_data[arg[2].v])
               ks == TieredMatches(rows, arg[1])
           IN Cardinality({RowTier(rows[k]) : k \in ks}) > 1
                 => ret = RowTier(rows[CHOOSE k \in ks : \A j \in ks : k <= j])

\* the rows of the file found under a candidate name, none when it is missing
\* or does not parse
FileRows(files, k) == IF files[k].exists /\ files[k].readable THEN files[k].rows ELSE <<>>

\* how many rows the files of the candidates before k hold
RECURSIVE RowsBefore(_, _)
RowsBefore(files, k) ==
    IF k = 1 THEN 0 ELSE RowsBefore(files, k - 1) + Len(FileRows(files, k - 1))

\* the table holds the rows of the files in candidate order, each file's rows
\* in the order of the file
InCandidateOrder(rows, files) ==
    /\ Len(rows) = RowsBefore(files, Len(Candidates) + 1)
    /\ \A k \in 1..Len(Candidates) : \A n \in 1..Len(FileRows(files, k)) :
          \A c \in files[k].columns :
              rows[RowsBefore(files, k) + n][Strip(c)] = files[k].rows[n][c]

\* C7, amended: when several rows of the year's table match the identifier
\* with different tiers, the result is the tier of the first matching row in
\* file-concatenation order, which is the order of the candidate file names
\* (Eastern, Western, then the two names with a blank before ".csv": Eastern,
\* Western) and then the row order of the file; never a later row's tier.
C7_FirstMatchInCandidateOrder ==
    (pc = "sci_queried" /\ arg[1] # None /\ YearLoaded(scimago_data, arg[2]))
        => LET rows == scimago_data[arg[2].v]
               ks == TieredMatches(rows, arg[1])
           IN /\ InCandidateOrder(rows, scimago_files[arg[2].v])
              /\ Cardinality({RowTier(rows[k]) : k \in ks}) > 1
                    => ret = RowTier(rows[CHOOSE k \in ks : \A j \in ks : k <= j])

\* the Western file lists the identifier with Q2, the Eastern file found under
\* its second name lists it with Q4, and Q2 was returned
C7_Witness ==
    /\ pc = "sci_queried"
    /\ arg = <<Variant(ISSN_B, <<>>, TRUE, 0, 0), PyInt(FixtureYear)>>
    /\ scimago_files[FixtureYear] = <<NoFile, SciFileOne, SciFileTwo, NoFile>>
    /\ ret = Q2

\* some file of the year exists and parses
SomeFileRead(files, y) ==
    \E k \in 1..Len(Candidates) : files[y][k].exists /\ files[y][k].readable

\* C21: get_scimago_quartile returns None, without error and without scanning
\* any row, when the identifier is empty, when the identifier normalizes to the
\* empty text (as "-" does), or when no ranking table was loaded for the year;
\* a year for which no candidate file exists has no entry in the table map.
C21_AbsentWithoutScan ==
    /\ pc \in {"sci_loaded", "sci_queried"} =>
          \A y \in ScimagoYears : y \in DOMAIN scimago_data <=> SomeFileRead(scimago_files, y)
    /\ (pc = "sci_queried"
          /\ (\/ arg[1] = None
              \/ arg[1] = EmptyStr
              \/ normalize_issn(arg[1]) = EmptyStr
              \/ arg[2].t # "int"
              \/ arg[2].v \notin ScimagoYears
              \/ ~SomeFileRead(scimago_files, arg[2].v)))
          => ret = None

\* "-" was looked up in a table with a row whose identifier cell ends in a
\* comma, so that one of its elements is empty, and that holds a tier
C21_Witness ==
    /\ pc = "sci_queried"
    /\ arg = <<(<<"-">>), PyInt(FixtureYear)>>
    /\ YearLoaded(scimago_data, arg[2])
    /\ \E k \in 1..Len(scimago_data[FixtureYear]) :
          /\ RowMatches(scimago_data[FixtureYear][k], EmptyStr)
          /\ RowTier(scimago_data[FixtureYear][k]) = Q1
    /\ ret = None

\* the lookup reaches the scan of the year's table
ScanReached ==
    /\ pc = "sci_queried"
    /\ arg[1] # None /\ normalize_issn(arg[1]) # EmptyStr
    /\ YearLoaded(scimago_data, arg[2])

\* some comma-separated element of some non-null column of the row whose
\* name, whatever its case, contains "issn" normalizes to the normalized target
ListsTarget(row, target) ==
    \E c \in DOMAIN row :
        /\ Contains(Lower(c), TXT_issn)
        /\ row[c] # NaN
        /\ \E n \in 1..Len(Split(row[c], ",")) :
              normalize_issn(Split(row[c], ",")[n]) = normalize_issn(target)

\* C22: in get_scimago_quartile a row matches the target if and only if some
\* comma-separated element of some non-null column whose name
\* case-insensitively contains "issn" normalizes to the normalized target: the
\* lookup answers a tier exactly when such a row holds one, and it is the tier
\* of the first such row; so a target given hyphenated or lower-case matches a
\* row listing it un-hyphenated as the second of several identifiers.
C22_MatchIffListed ==
    ScanReached =>
        LET rows == scimago_data[arg[2].v]
            ks == {k \in 1..Len(rows) : ListsTarget(rows[k], arg[1]) /\ RowTier(rows[k]) # None}
        IN /\ \A k \in 1..Len(rows) :
                 ListsTarget(rows[k], arg[1]) <=> RowMatches(rows[k], normalize_issn(arg[1]))
           /\ ret # None <=> ks # {}
           /\ ks # {} => ret = RowTier(rows[CHOOSE k \in ks : \A j \in ks : k <= j])

\* the lower-case "8765432x" was found as the second identifier of the cell
\* "12345678, 8765432X" under the column " Issn "
C22_Witness ==
    /\ pc = "sci_queried"
    /\ arg = <<Variant(ISSN_B, <<>>, TRUE, 0, 0), PyInt(FixtureYear)>>
    /\ scimago_files[FixtureYear] = <<SciFileOne, NoFile, UnreadableFile, NoFile>>
    /\ ret = Q2

\* the tier column at position i of the fixed order holds one of the four labels
HoldsLabel(row, i) ==
    /\ TierColumns[i] \in DOMAIN row
    /\ row[TierColumns[i]] # NaN
    /\ Strip(row[TierColumns[i]]) \in {Q1, Q2, Q3, Q4}

\* C23: the result of get_scimago_quartile is always one of exactly "Q1",
\* "Q2", "Q3", "Q4" or None. For a matching row the tier is read from the
\* candidate tier columns in the fixed order SJR Quartile, SJR quartile,
\* Quartile, sjr quartile, SJR, taking the first column whose value is one of
\* the four labels; a matching row with no valid label in any candidate column
\* is skipped and the scan continues with the remaining rows, and None is
\* returned only if no matching row yields a valid tier.
C23_TierFromOrderedColumns ==
    /\ pc = "sci_queried" => ret \in {Q1, Q2, Q3, Q4, None}
    /\ TierColumns = <<COL_SJR_Quartile, COL_SJR_quartile, COL_Quartile, COL_sjr_quartile,
                       COL_SJR>>
    /\ ScanReached =>
          LET rows == scimago_data[arg[2].v]
              ks == {k \in 1..Len(rows) :
                        /\ RowMatches(rows[k], normalize_issn(arg[1]))
                        /\ \E i \in 1..Len(TierColumns) : HoldsLabel(rows[k], i)}
          IN IF ks = {} THEN ret = None
             ELSE LET row == rows[CHOOSE k \in ks : \A j \in ks : k <= j]
                      i == CHOOSE n \in 1..Len(TierColumns) :
                               HoldsLabel(row, n) /\ \A m \in 1..(n - 1) : ~HoldsLabel(row, m)
                  IN ret = Strip(row[TierColumns[i]])

\* the first row listing "22223333" holds "-" for a tier and was passed over,
\* the next one gave Q3
C23_Witness ==
    /\ pc = "sci_queried"
    /\ arg = <<ISSN_C, PyInt(FixtureYear)>>
    /\ scimago_files[FixtureYear] = <<SciFileTwo, SciFileOne, NoFile, NoFile>>
    /\ ret = Q3

\* ------------------------------------------------------------------ SpecStrict
\* create_strict_dataset over enriched tables of at most this many records
MaxStrictRows == 3

\* a plausible slip: the registry narrowed to the identifiers of the table
CreateStrict_narrowing_registry ==
    /\ pc = "enhanced"
    /\ df_enhanced' = ensure_all_columns_exist(df_enhanced)
    /\ strict' = create_strict_dataset(df_enhanced, quartile_threshold, scopus_sources)
    /\ scopus_sources' =
           {issn \in scopus_sources :
               \E k \in 1..Len(df_enhanced.rows) :
                   \E n \in 1..Len(df_enhanced.rows[k]["source_issn"]) :
                       df_enhanced.rows[k]["source_issn"][n] = issn}
    /\ pc' = "filtered"
    /\ UNCHANGED <<normVars, envVars, scimago_data, openalex_cache, df_all, quartile_threshold,
                   fetchVars, cursor, enhanced_rows, outputs>>

\* self.create_strict_dataset(df_enhanced, quartile_threshold)
CreateStrict ==
    /\ pc = "enhanced"
    /\ df_enhanced' = ensure_all_columns_exist(df_enhanced)
    /\ strict' = create_strict_dataset(df_enhanced, quartile_threshold, scopus_sources)
    /\ pc' = "filtered"
    /\ UNCHANGED <<normVars, envVars, creatorVars, df_all, quartile_threshold, fetchVars,
                   cursor, enhanced_rows, outputs>>

\* self.create_strict_dataset(strict, quartile_threshold): the filter applied
\* to the table it returned
CreateStrictAgain ==
    /\ pc = "filtered"
    /\ strict' = ensure_all_columns_exist(strict)
    /\ ret2' = create_strict_dataset(strict, quartile_threshold, scopus_sources)
    /\ pc' = "refiltered"
    /\ UNCHANGED <<arg, ret, envVars, creatorVars, df_all, quartile_threshold, fetchVars,
                   cursor, enhanced_rows, df_enhanced, outputs>>

RegistryOfA == ScopusTable(<<Column(COL_ISSN, <<Hyphenated(ISSN_A)>>)>>)

\* enriched records that differ in the indexing flag and the tier
StrictRecord(flag, tier) ==
    [AbsentRow(Table({"work_id"}, <<>>), [work_id |-> PyStr(W1)])
        EXCEPT !["is_scopus_indexed"] = flag, !["scimago_quartile"] = tier]
StrictRecords == {StrictRecord(flag, tier) : flag \in BOOLEAN, tier \in TierLabels \cup {None}}
\* the four tier labels and a string that is none of them
Thresholds == {Q1, Q2, Q3, Q4, Lower(Q3)}

InitStrict ==
    /\ pc = "enhanced"
    /\ scopus_file \in {NoFile, RegistryOfA}
    /\ scimago_files = NoScimagoFiles
    /\ works_all_file = NoFile
    /\ openalex = {}
    /\ scopus_sources = load_scopus_sources(scopus_file)
    /\ scimago_data = load_scimago_data(scimago_files)
    /\ openalex_cache = EmptyCache
    /\ df_all = NoTable
    /\ quartile_threshold \in Thresholds
    /\ works_details = <<>>
    /\ calls = <<>>
    /\ cursor = 0
    /\ enhanced_rows = <<>>
    /\ \E rows \in SeqsUpTo(StrictRecords, MaxStrictRows) : df_enhanced = FinishEnhanced(rows)
    /\ strict = NoFrame
    /\ outputs = <<>>
    /\ NormIdle

NextStrict == CreateStrict \/ CreateStrictAgain

SpecStrict == InitStrict /\ [][NextStrict]_vars

\* the positions of the records of a frame that pass both steps of the filter
\* with the accepted tiers given
Passing(df, accepted) ==
    {k \in 1..Len(df.rows) :
        /\ scopus_sources # {} => df.rows[k]["is_scopus_indexed"] = TRUE
        /\ df.rows[k]["scimago_quartile"] \in accepted}

\* out is the sub-sequence of df made of the rows at the positions ks
IsSubFrame(out, df, ks) ==
    /\ Len(out.rows) = Cardinality(ks) /\ Len(out.index) = Len(out.rows)
    /\ \A n \in 1..Len(out.rows) :
          /\ \E k \in ks : df.index[k] = out.index[n] /\ df.rows[k] = out.rows[n]
          /\ \A m \in 1..(n - 1) : out.index[m] < out.index[n]

\* C5: create_strict_dataset returns exactly the sub-sequence of the enriched
\* table (same order, no deduplication, no row added or altered) of the records
\* that pass step 1 and whose scimago_quartile is in the accepted set, Q1..Q3
\* for threshold "Q3" and Q1..Q2 for threshold "Q2"; no record with a null tier
\* is in the output, a Q2 record is kept under both thresholds and a Q3 record
\* under "Q3" only.
C5_StrictIsAcceptedSubsequence ==
    (pc = "filtered" /\ quartile_threshold \in {Q2, Q3}) =>
        /\ IsSubFrame(strict, df_enhanced,
                      Passing(df_enhanced, IF quartile_threshold = Q3 THEN {Q1, Q2, Q3}
                                           ELSE {Q1, Q2}))
        /\ \A n \in 1..Len(strict.rows) : strict.rows[n]["scimago_quartile"] # None

\* under "Q2" a table with a Q3 record between two equal Q2 records gave two records
C5_Witness ==
    /\ pc = "filtered" /\ quartile_threshold = Q2
    /\ Len(df_enhanced.rows) = 3
    /\ df_enhanced.rows[2]["scimago_quartile"] = Q3
    /\ df_enhanced.rows[1] = df_enhanced.rows[3]
    /\ strict.index = <<0, 2>>

\* C6: with a non-empty Indexing Registry only records whose is_scopus_indexed
\* is true are in the strict output; with an empty registry step 1 is skipped
\* without error, and a record with an accepted tier and indexing flag false is
\* in the strict output.
C6_RegistryStepSkippedWhenEmpty ==
    pc = "filtered" =>
        /\ scopus_sources # {} =>
              \A n \in 1..Len(strict.rows) : strict.rows[n]["is_scopus_indexed"] = TRUE
        /\ scopus_sources = {} =>
              \A k \in 1..Len(df_enhanced.rows) :
                  df_enhanced.rows[k]["scimago_quartile"] \in ValidQuartiles(quartile_threshold)
                      => \E n \in 1..Len(strict.rows) :
                            /\ strict.index[n] = df_enhanced.index[k]
                            /\ strict.rows[n] = df_enhanced.rows[k]

\* the registry file is missing and a record that is not indexed was retained
C6_Witness ==
    /\ pc = "filtered" /\ ~scopus_file.exists /\ scopus_sources = {}
    /\ \E n \in 1..Len(strict.rows) :
          strict.rows[n]["is_scopus_indexed"] = FALSE /\ strict.rows[n]["scimago_quartile"] = Q1

\* C12: create_strict_dataset is idempotent: with the registry unchanged,
\* filtering its own output again with the same threshold returns a table
\* identical to that output (the same records with the same index labels and
\* the same columns).
C12_FilterIdempotent ==
    pc = "refiltered" => ret2 = strict

\* a table of three records lost one to each step of the filter, and the one
\* record left was filtered again
C12_Witness ==
    /\ pc = "refiltered"
    /\ scopus_sources # {}
    /\ Len(df_enhanced.rows) = 3 /\ Len(strict.rows) = 1
    /\ \E k \in 1..3 : /\ df_enhanced.rows[k]["is_scopus_indexed"] = FALSE
                       /\ df_enhanced.rows[k]["scimago_quartile"] = Q1
    /\ \E k \in 1..3 : /\ df_enhanced.rows[k]["is_scopus_indexed"] = TRUE
                       /\ df_enhanced.rows[k]["scimago_quartile"] = Q4
    /\ strict.index = <<1>>
    /\ Len(ret2.rows) = 1

\* the records of a frame with their index labels, in order
Entries(df) == [n \in 1..Len(df.rows) |-> <<df.index[n], df.rows[n]>>]

\* s can be had from t by leaving elements out
RECURSIVE IsSubsequence(_, _)
IsSubsequence(s, t) ==
    IF s = <<>> THEN TRUE
    ELSE IF t = <<>> THEN FALSE
    ELSE IF Head(s) = Head(t) THEN IsSubsequence(Tail(s), Tail(t))
    ELSE IsSubsequence(s, Tail(t))

\* C29: create_strict_dataset accepts any threshold value without error: "Q3"
\* selects the tiers Q1..Q3 and every other value, "Q1", "Q4" and unknown
\* strings included, selects Q1..Q2; hence the output for any threshold is a
\* sub-sequence of the output for "Q3", and a Q4 record is never in a strict
\* output.
C29_AnyThresholdAccepted ==
    pc \in {"filtered", "refiltered"} =>
          /\ IsSubFrame(strict, df_enhanced,
                        Passing(df_enhanced, IF quartile_threshold = Q3 THEN {Q1, Q2, Q3}
                                             ELSE {Q1, Q2}))
          /\ IsSubsequence(Entries(strict),
                           Entries(create_strict_dataset(df_enhanced, Q3, scopus_sources)))
          /\ \A n \in 1..Len(strict.rows) : strict.rows[n]["scimago_quartile"] # Q4

\* under a threshold that is no tier label, a table with a Q1, a Q3 and a Q4
\* record gave the Q1 record alone
C29_Witness ==
    /\ pc = "filtered" /\ quartile_threshold = Lower(Q3)
    /\ scopus_sources = {}
    /\ Len(df_enhanced.rows) = 3
    /\ df_enhanced.rows[1]["scimago_quartile"] = Q3
    /\ df_enhanced.rows[2]["scimago_quartile"] = Q1
    /\ df_enhanced.rows[3]["scimago_quartile"] = Q4
    /\ strict.index = <<1>>

\* ------------------------------------------------------------------ Spec: create_datasets
\* the whole run over tables of at most this many records
MaxPipeRows == 2

\* a plausible slip: a missing works_all.csv is taken for an empty table
CreateDatasets_missing_as_empty ==
    /\ pc = "idle"
    /\ df_all' = IF works_all_file.exists THEN works_all_file.table
                 ELSE Table({"work_id"}, <<>>)
    /\ pc' = "enhance_call"
    /\ UNCHANGED <<normVars, envVars, creatorVars, quartile_threshold, fetchVars, outVars>>

\* create_datasets(quartile_threshold), up to the call of enhance_all_dataset:
\* FileNotFoundError without works_all.csv, else the table read from it
CreateDatasets ==
    /\ pc = "idle"
    /\ IF ~works_all_file.exists
       THEN /\ pc' = "raised"
            /\ ret' = Raised("FileNotFoundError", "create_datasets")
            /\ UNCHANGED df_all
       ELSE /\ df_all' = works_all_file.table
            /\ pc' = "enhance_call"
            /\ UNCHANGED ret
    /\ UNCHANGED <<arg, ret2, envVars, creatorVars, quartile_threshold, fetchVars, outVars>>

\* one iteration of the second loop of enhance_all_dataset: the record of a
\* (wid, work) pair is built and appended, or an exception ends the operation
EnhanceProcess ==
    /\ pc = "processing"
    /\ cursor < Len(works_details)
    /\ LET wid == works_details[cursor + 1].wid
           work == works_details[cursor + 1].detail
           first == FirstOriginal(df_all, wid)
       IN IF first = 0
          THEN /\ pc' = pc
               /\ UNCHANGED <<ret, enhanced_rows>>
          ELSE IF ~Truthy(work)
          THEN /\ enhanced_rows' = Append(enhanced_rows, AbsentRow(df_all, df_all.rows[first]))
               /\ pc' = pc
               /\ UNCHANGED ret
          ELSE IF ProcessingError(work) # ""
          THEN /\ pc' = "raised"
               /\ ret' = Raised(ProcessingError(work), "enhance_all_dataset")
               /\ UNCHANGED enhanced_rows
          ELSE /\ \E issn_list \in Orders(IssnSet(PrimarySource(work))) :
                     enhanced_rows' =
                         Append(enhanced_rows,
                                EnrichedRow(df_all, df_all.rows[first], work, issn_list,
                                            scopus_sources, scimago_data))
               /\ pc' = pc
               /\ UNCHANGED ret
    /\ cursor' = cursor + 1
    /\ UNCHANGED <<arg, ret2, envVars, creatorVars, df_all, quartile_threshold, fetchVars,
                   df_enhanced, strict, outputs>>

\* the end of enhance_all_dataset: the frame is built, completed and returned
EnhanceFinish ==
    /\ pc = "processing"
    /\ cursor = Len(works_details)
    /\ IF CoercionError(enhanced_rows) # ""
       THEN /\ pc' = "raised"
            /\ ret' = Raised(CoercionError(enhanced_rows), "enhance_all_dataset")
            /\ UNCHANGED df_enhanced
       ELSE /\ df_enhanced' = FinishEnhanced(enhanced_rows)
            /\ pc' = "enhanced"
            /\ UNCHANGED ret
    /\ UNCHANGED <<arg, ret2, envVars, creatorVars, df_all, quartile_threshold, fetchVars,
                   cursor, enhanced_rows, strict, outputs>>

\* save_datasets(df_all_enhanced, df_strict, quartile_threshold): the four
\* files are written, then generate_final_summary divides by the number of
\* records of the enhanced table
SaveDatasets ==
    /\ pc = "filtered"
    /\ outputs' = <<[all |-> df_enhanced, strict |-> strict, threshold |-> quartile_threshold]>>
    /\ IF Len(df_enhanced.rows) = 0
       THEN pc' = "raised" /\ ret' = Raised("ZeroDivisionError", "generate_final_summary")
       ELSE pc' = "done" /\ UNCHANGED ret
    /\ UNCHANGED <<arg, ret2, envVars, creatorVars, df_all, quartile_threshold, fetchVars,
                   cursor, enhanced_rows, df_enhanced, strict>>

\* the fixtures of the run
TXT_J == <<"J">>
TXT_journal == <<"j", "o", "u", "r", "n", "a", "l">>
TXT_gold == <<"g", "o", "l", "d">>
TXT_AI == <<"A", "I">>
TXT_Other == <<"O", "t", "h", "e", "r">>
TXT_article == <<"a", "r", "t", "i", "c", "l", "e">>
Named(name) == PyDict([display_name |-> PyStr(name)])
VenueAB ==
    PyDict([display_name |-> PyStr(TXT_J), type |-> PyStr(TXT_journal),
            issn_l |-> PyStr(Hyphenated(ISSN_B)),
            issn |-> PyList(<<PyStr(Hyphenated(ISSN_B)), PyStr(Lower(Hyphenated(ISSN_A)))>>)])
VenueCA ==
    PyDict([issn |-> PyStr(Hyphenated(ISSN_C) \o <<",", " ">> \o Hyphenated(ISSN_A) \o <<",">>)])
VenueC == PyDict([issn_l |-> PyStr(Hyphenated(ISSN_C)), issn |-> PyNone])
BodyFull ==
    PyDict([title |-> PyStr(T_Title), publication_year |-> PyInt(FixtureYear),
            cited_by_count |-> PyInt(7),
            open_access |-> PyDict([is_oa |-> PyBool(TRUE), oa_status |-> PyStr(TXT_gold)]),
            primary_location |-> PyDict([source |-> VenueAB]),
            concepts |-> PyList(<<Named(TXT_AI), Named(TXT_Other)>>),
            topics |-> PyList(<<Named(TXT_AI), PyDict([display_name |-> PyNone])>>)])
BodyNullLocation == PyDict([title |-> PyStr(T_Title), primary_location |-> PyNone])
BodyBare == PyDict([title |-> PyNone, type |-> PyStr(TXT_article)])
BodyNullOpenAccess ==
    PyDict([primary_location |-> PyDict([source |-> PyNone]), open_access |-> PyNone])
BodyCommaIssn ==
    PyDict([publication_year |-> PyInt(FixtureYear),
            primary_location |-> PyDict([source |-> VenueCA])])
BodyUnindexed ==
    PyDict([publication_year |-> PyInt(0), cited_by_count |-> PyNone,
            primary_location |-> PyDict([source |-> VenueC])])
BodyHalfYear == PyDict([publication_year |-> PyFloat(FixtureYear, 5)])
PipeBodies ==
    {BodyFull, BodyNullLocation, BodyBare, BodyNullOpenAccess, BodyCommaIssn, BodyUnindexed,
     BodyHalfYear, EmptyDict}

RawColumns == {"work_id", "publication_year", "cited_by_count", "type", "multi_country"}
RawRecord(work_id, year, cited, type, multi) ==
    [work_id |-> work_id, publication_year |-> year, cited_by_count |-> cited,
     type |-> type, multi_country |-> multi]
RawRecords ==
    {RawRecord(PyStr(W1), PyInt(FixtureYear), PyInt(3), PyStr(TXT_article), PyBool(TRUE)),
     RawRecord(PyStr(URL_PREFIX \o W1), PyInt(END_YEAR), PyInt(-2), PyNaN, PyBool(FALSE)),
     RawRecord(PyStr(W2), PyNaN, PyStr(TXT_gold), PyNaN, PyBool(FALSE))}
\* the tables of at most MaxPipeRows of the raw records, each record at most
\* once, in every order; the first two records share a normalized identifier
PipeTables ==
    {Table(RawColumns, rows) :
        rows \in UNION {Orders(S) : S \in {R \in SUBSET RawRecords :
                                               Cardinality(R) <= MaxPipeRows}}}
        \cup {Table({"publication_year"}, <<[publication_year |-> PyInt(FixtureYear)]>>)}

PipeScimagoWorlds ==
    {NoScimagoFiles,
     [y \in CollectionYears |->
         IF y \in {FixtureYear, END_YEAR} THEN <<SciFileOne, NoFile, NoFile, NoFile>>
         ELSE [k \in 1..Len(Candidates) |-> NoFile]]}

\* the state after FinalStrictCreator() in a directory with these files
Init ==
    /\ pc = "idle"
    /\ scopus_file \in {NoFile, RegistryOfA}
    /\ scimago_files \in PipeScimagoWorlds
    /\ works_all_file \in {NoFile} \cup {[exists |-> TRUE, table |-> t] : t \in PipeTables}
    /\ openalex = PipeBodies
    /\ scopus_sources = load_scopus_sources(scopus_file)
    /\ scimago_data = load_scimago_data(scimago_files)
    /\ openalex_cache = EmptyCache
    /\ quartile_threshold = Q3
    /\ df_all = NoTable
    /\ works_details = <<>>
    /\ calls = <<>>
    /\ OutIdle
    /\ NormIdle

Next ==
    \/ CreateDatasets
    \/ EnhanceBegin
    \/ EnhanceFetch
    \/ EnhanceProcess
    \/ EnhanceFinish
    \/ CreateStrict
    \/ SaveDatasets

Spec == Init /\ [][Next]_vars

\* enhance_all_dataset ended in an exception
EnhanceRaised == pc = "raised" /\ ret.at = "enhance_all_dataset"

\* C4: enhance_all_dataset is total: for every input table with a work_id
\* column and every fetch outcome per record (absent, or any successful
\* record, also one whose primary_location or open_access is null or missing)
\* it completes without raising and returns exactly one enriched record per
\* input record, in input order.
C4_EnhanceTotal ==
    /\ (EnhanceRaised /\ "work_id" \in df_all.columns) => FALSE
    /\ pc = "enhanced" =>
          /\ Len(df_enhanced.rows) = Len(df_all.rows)
          /\ \A k \in 1..Len(df_all.rows) :
                normalize_openalex_id(df_enhanced.rows[k]["work_id"])
                    = df_all.rows[k]["work_id_clean"]

\* the record k was built from a fetched work
BuiltFromFetch(k) == k <= Len(enhanced_rows) /\ Truthy(works_details[k].detail)

\* C10: for every enriched record built from a successful fetch,
\* is_scopus_indexed is true if and only if at least one of the record's
\* normalized venue identifiers is a member of the Indexing Registry; it is
\* false for every record when the registry is empty or the record has no
\* venue identifier.
C10_IndexedIffSomeIdentifierInRegistry ==
    \A k \in 1..Len(works_details) :
        BuiltFromFetch(k) =>
            LET row == enhanced_rows[k]
                collected == CollectedIssns(PrimarySource(works_details[k].detail))
            IN /\ row["is_scopus_indexed"]
                    <=> \E n \in 1..Len(row["source_issn"]) :
                           row["source_issn"][n] \in scopus_sources
               /\ row["is_scopus_indexed"]
                    <=> \E n \in 1..Len(collected) :
                           normalize_issn(collected[n]) \in scopus_sources
               /\ scopus_sources = {} => ~row["is_scopus_indexed"]
               /\ row["source_issn"] = <<>> => ~row["is_scopus_indexed"]

\* a record whose second identifier alone is in the registry is indexed, and
\* a record with an identifier that is not in the registry is not
C10_Witness ==
    /\ scopus_sources = {ISSN_A}
    /\ \E k \in 1..Len(enhanced_rows) :
          /\ BuiltFromFetch(k)
          /\ enhanced_rows[k]["source_issn"] = <<ISSN_B, ISSN_A>>
          /\ enhanced_rows[k]["is_scopus_indexed"]
    /\ \E k \in 1..Len(enhanced_rows) :
          /\ BuiltFromFetch(k)
          /\ enhanced_rows[k]["source_issn"] = <<ISSN_C>>
          /\ ~enhanced_rows[k]["is_scopus_indexed"]

\* the record k was built for a fetch that returned nothing
BuiltFromRaw(k) == k <= Len(enhanced_rows) /\ ~Truthy(works_details[k].detail)

\* the raw record the enricher looks up for input record k: the first record
\* of the table with the same normalized identifier
RawOf(k) == df_all.rows[FirstOriginal(df_all, df_all.rows[k]["work_id_clean"])]

\* the raw baseline fields present in the input table
RawBaseline ==
    {"publication_year", "publication_date", "type", "language", "cited_by_count",
     "open_access_is_oa", "open_access_oa_status", "multi_institution", "multi_country",
     "authors_count", "institutions_count"} \cap df_all.columns

NoWorkDone == calls = <<>> /\ works_details = <<>> /\ openalex_cache = EmptyCache /\ outputs = <<>>

\* C15: the two fatal configuration errors abort the run before any work is
\* done: an input table without a work_id column makes enhance_all_dataset
\* raise before any external fetch is issued, and a missing works_all.csv makes
\* create_datasets raise before any fetch is issued and before any output file
\* is written.
C15_FatalErrorsAbortFirst ==
    /\ ~works_all_file.exists =>
          /\ NoWorkDone
          /\ pc \in {"idle", "raised"}
          /\ pc = "raised" => ret = Raised("FileNotFoundError", "create_datasets")
    /\ (works_all_file.exists /\ "work_id" \notin works_all_file.table.columns) =>
          /\ NoWorkDone
          /\ pc \in {"idle", "enhance_call", "raised"}
          /\ pc = "raised" => ret = Raised("KeyError", "enhance_all_dataset")
    /\ (pc = "raised" /\ ret.v \in {"KeyError", "FileNotFoundError"}) => NoWorkDone

\* works_all.csv holds a record but no work_id column, and the run ended in
\* the KeyError of enhance_all_dataset
C15_Witness ==
    /\ pc = "raised" /\ ret = Raised("KeyError", "enhance_all_dataset")
    /\ works_all_file.exists /\ Len(works_all_file.table.rows) = 1
    /\ df_all = works_all_file.table

\* the value the external record holds for a field both records may hold,
\* None when it has none
ExternalValue(work, field) ==
    CASE field = "open_access_is_oa" -> Get(OpenAccess(work), "is_oa")
      [] field = "open_access_oa_status" -> Get(OpenAccess(work), "oa_status")
      [] OTHER -> Get(work, field)

\* the fields held by both the raw and the external record
SharedFields ==
    {"publication_year", "publication_date", "type", "language", "cited_by_count",
     "open_access_is_oa", "open_access_oa_status"}

\* C16: when the fetch succeeds, every field held by both the raw and the
\* external record (publication year, publication date, type, language,
\* citation count, open-access flag and status) takes the external value when
\* the external record has it and the raw record's value otherwise.
C16_ExternalThenRaw ==
    \A k \in 1..Len(works_details) :
        BuiltFromFetch(k) =>
            \A field \in SharedFields \cap df_all.columns :
                LET external == ExternalValue(works_details[k].detail, field)
                IN enhanced_rows[k][field]
                       = IF ~IsNa(external) THEN external ELSE RawOf(k)[field]

\* a sequence without the later occurrences of its elements
RECURSIVE KeepFirst(_)
KeepFirst(names) ==
    IF names = <<>> THEN <<>>
    ELSE LET front == SubSeq(names, 1, Len(names) - 1)
             last == names[Len(names)]
         IN IF \E k \in 1..Len(front) : front[k] = last
            THEN KeepFirst(front)
            ELSE Append(KeepFirst(front), last)

\* the display names of "concepts" followed by those of "topics", in discovery
\* order, without the names equal to "other" whatever their case
NamedConcepts(work) ==
    SelectSeq(DisplayNames(work, "concepts") \o DisplayNames(work, "topics"),
              LAMBDA c : Lower(c) # TXT_other)

\* C17: for a successfully fetched record, concepts_list is the semicolon-joined
\* sequence of the display names of "concepts" followed by "topics", in
\* discovery order, with every name equal to "other" (case-insensitive) removed
\* and with duplicates removed, so no display name occurs twice in the list.
C17_ConceptsDeduplicated ==
    \A k \in 1..Len(works_details) :
        BuiltFromFetch(k) =>
            LET names == NamedConcepts(works_details[k].detail)
                listed == Split(enhanced_rows[k]["concepts_list"], ";")
            IN /\ enhanced_rows[k]["concepts_list"] = Join(KeepFirst(names), <<";">>)
               /\ \A i \in 1..Len(listed) : \A j \in 1..Len(listed) :
                     listed[i] = listed[j] => i = j

\* the venue identifier list of a record holds the normalized, non-empty
\* identifiers of the primary venue, each once
HoldsVenueIdentifiers(row, work) ==
    LET collected == CollectedIssns(PrimarySource(work))
        listed == row["source_issn"]
    IN /\ {listed[n] : n \in 1..Len(listed)}
              = {normalize_issn(collected[n]) : n \in 1..Len(collected)} \ {EmptyStr}
       /\ \A i \in 1..Len(listed) : \A j \in 1..Len(listed) : listed[i] = listed[j] => i = j
       /\ \A n \in 1..Len(listed) :
             listed[n] # EmptyStr /\ normalize_issn(listed[n]) = listed[n]
       /\ row["venue_issn_list"] = Join(listed, <<";">>)

\* C18: for a successfully fetched record, the venue identifier list holds the
\* normalized, non-empty, duplicate-free identifiers taken from the primary
\* venue's issn_l plus its issn field (single value, comma-separated string, or
\* list), and its output order is deterministic: two runs on the same external
\* record produce the same source_issn and venue_issn_list sequence, so the
\* sequence that was produced is the one every iteration of the set gives.
C18_VenueListDeterministic ==
    \A k \in 1..Len(works_details) :
        BuiltFromFetch(k) =>
            LET work == works_details[k].detail
            IN /\ HoldsVenueIdentifiers(enhanced_rows[k], work)
               /\ \A other \in Orders(IssnSet(PrimarySource(work))) :
                     /\ other = enhanced_rows[k]["source_issn"]
                     /\ Join(other, <<";">>) = enhanced_rows[k]["venue_issn_list"]

\* a frame has every column of the enriched record
HasAllColumns(df) == RowColumns \subseteq df.columns

\* ensure_all_columns_exist leaves the columns a frame has as they are
KeepsColumns(df) ==
    LET out == ensure_all_columns_exist(df)
    IN /\ df.columns \subseteq out.columns
       /\ Len(out.rows) = Len(df.rows) /\ out.index = df.index
       /\ \A k \in 1..Len(df.rows) : \A c \in df.columns : out.rows[k][c] = df.rows[k][c]

\* C19: every table handed to the persister carries every enriched-record
\* column of the data model, for any input including an empty input table and
\* a table where every fetch failed: after enhance_all_dataset and
\* create_strict_dataset no column (work_id, title, abstract, source fields,
\* concepts_list, venue_issn_list, is_scopus_indexed, scimago_quartile,
\* publication_year, cited_by_count, collaboration flags) is missing, and
\* ensure_all_columns_exist never changes a column that already exists.
C19_NoColumnMissing ==
    /\ pc \in {"enhanced", "filtered", "done"} =>
          HasAllColumns(df_enhanced) /\ KeepsColumns(df_enhanced)
    /\ pc \in {"filtered", "done"} => HasAllColumns(strict) /\ KeepsColumns(strict)
    /\ pc = "processing" => KeepsColumns(DataFrameOf(enhanced_rows))
    /\ \A n \in 1..Len(outputs) :
          HasAllColumns(outputs[n].all) /\ HasAllColumns(outputs[n].strict)

\* the tiers the first n identifiers of the list resolve to for the year
RECURSIVE TiersOf(_, _, _)
TiersOf(issn_list, pub_year, n) ==
    IF n = 0 THEN <<>>
    ELSE Append(TiersOf(issn_list, pub_year, n - 1),
                get_scimago_quartile(scimago_data, issn_list[n], pub_year))

\* C24: for a successfully fetched record, scimago_quartile is the result of
\* resolving the record's venue identifiers one by one, in the order of its
\* venue identifier list, against the ranking table of the record's merged
\* publication year: it equals the tier of the first identifier that resolves,
\* whatever the identifiers after that one resolve to, and it is null when the
\* list is empty, the year is missing, or no identifier resolves.
C24_FirstResolvingIdentifier ==
    \A k \in 1..Len(works_details) :
        BuiltFromFetch(k) =>
            LET row == enhanced_rows[k]
                issn_list == row["source_issn"]
                pub_year == row["publication_year"]
            IN IF issn_list = <<>> \/ ~Truthy(pub_year)
               THEN row["scimago_quartile"] = None
               ELSE \E tiers \in {TiersOf(issn_list, pub_year, Len(issn_list))} :
                       LET ns == {n \in 1..Len(tiers) : tiers[n] # None}
                       IN /\ ns = {} => row["scimago_quartile"] = None
                          /\ ns # {} =>
                                row["scimago_quartile"]
                                    = tiers[CHOOSE n \in ns : \A m \in ns : n <= m]

\* a record lists "22223333", which resolves to Q3, before "12345678", which
\* resolves to Q2, and holds Q3
C24_Witness ==
    \E k \in 1..Len(enhanced_rows) :
        /\ BuiltFromFetch(k)
        /\ enhanced_rows[k]["source_issn"] = <<ISSN_C, ISSN_A>>
        /\ get_scimago_quartile(scimago_data, ISSN_A, enhanced_rows[k]["publication_year"]) = Q2
        /\ enhanced_rows[k]["scimago_quartile"] = Q3

\* C27: the registry set and the per-year ranking tables are built once in the
\* constructor and are left unchanged by every later operation
\* (get_work_details_single, get_scimago_quartile, is_scopus_indexed,
\* enhance_all_dataset, create_strict_dataset): the memoization cache is the
\* only state of the creator that any of these operations changes, and it
\* changes in a fetch only.
C27_ReferenceTablesImmutable ==
    [][/\ scopus_sources' = scopus_sources
       /\ scimago_data' = scimago_data
       /\ scopus_sources' = load_scopus_sources(scopus_file')
       /\ scimago_data' = load_scimago_data(scimago_files')
       /\ openalex_cache' # openalex_cache =>
             /\ pc = "fetching"
             /\ Len(calls') = Len(calls) + 1
             /\ Succeeds(calls'[Len(calls')].outcome)]_vars

\* a run with a registry, a ranking table and a filled cache went through
\* enrichment and the filter, and a record was resolved against both tables
C27_Witness ==
    /\ pc = "done"
    /\ scopus_sources = {ISSN_A} /\ FixtureYear \in DOMAIN scimago_data
    /\ openalex_cache # EmptyCache
    /\ \E k \in 1..Len(df_enhanced.rows) :
          /\ df_enhanced.rows[k]["is_scopus_indexed"] = TRUE
          /\ df_enhanced.rows[k]["scimago_quartile"] = Q2
    /\ Len(strict.rows) < Len(df_enhanced.rows)

\* the columns of the input table the enricher copies without looking at the
\* external record, and those it falls back on
RawCopied == {"multi_institution", "multi_country", "authors_count", "institutions_count"}
RawFallbacks == {"publication_year", "publication_date", "type", "language"}

\* C28: row identity is kept through enrichment also when the input repeats a
\* work identifier: for every position i, the raw-derived fields of output
\* record i (work_id, collaboration flags, author and institution counts, and
\* the raw fallbacks for year, date, type, language) come from input record i,
\* not from another input record that has the same normalized work identifier.
C28_RowIdentityKept ==
    \A i \in 1..Len(enhanced_rows) :
        LET row == enhanced_rows[i]
            input == df_all.rows[i]
            work == works_details[i].detail
        IN /\ row["work_id"] = input["work_id"]
           /\ \A c \in RawCopied \cap df_all.columns : row[c] = input[c]
           /\ \A c \in RawFallbacks \cap df_all.columns :
                 row[c] = IF BuiltFromFetch(i) THEN Or(Get(work, c), input[c]) ELSE input[c]

\* the operation ended in the coercion of the two numeric columns: every
\* record was processed and the cast that follows raised
CoercionRaised ==
    /\ EnhanceRaised
    /\ ret.v = "TypeError"
    /\ Len(enhanced_rows) = Len(works_details)

\* C25: after enhance_all_dataset every record's cited_by_count is a
\* non-negative integer and every publication_year is an integer or null, and
\* the coercion of these two fields never makes the operation fail, whatever
\* values the raw and external records hold.
C25_CoercionNeverFails ==
    /\ ~CoercionRaised
    /\ pc \in {"enhanced", "filtered", "done"} =>
          \A k \in 1..Len(df_enhanced.rows) :
              LET row == df_enhanced.rows[k]
              IN /\ row["cited_by_count"].t = "int"
                 /\ row["cited_by_count"].v >= 0
                 /\ row["publication_year"].t \in {"int", "none"}

\* the record's publication year is a number outside 2020..2024
OutsideRankedYears(row) ==
    row["publication_year"].t = "int" /\ row["publication_year"].v \notin 2020..2024

\* C30: ranking tables exist only for the years 2020 to 2024, so every enriched
\* record whose publication year is outside 2020..2024 (2025 included, which
\* the collection window admits) has a null scimago_quartile and is never part
\* of the strict corpus, under either threshold and whether or not the
\* registry is empty.
C30_NoTierOutsideRankedYears ==
    /\ DOMAIN scimago_data \subseteq 2020..2024
    /\ pc \in {"enhanced", "filtered", "done"} =>
          /\ \A k \in 1..Len(df_enhanced.rows) :
                OutsideRankedYears(df_enhanced.rows[k])
                    => df_enhanced.rows[k]["scimago_quartile"] = None
          /\ \A threshold \in {Q2, Q3}, sources \in {scopus_sources, {}} :
                LET out == create_strict_dataset(df_enhanced, threshold, sources)
                IN \A n \in 1..Len(out.rows) : ~OutsideRankedYears(out.rows[n])
    /\ pc \in {"filtered", "done"} =>
          \A n \in 1..Len(strict.rows) : ~OutsideRankedYears(strict.rows[n])

\* a ranking file of 2025 lies in the directory and lists the venue of a record
\* of 2025 with a tier; the record was enriched without a tier and the strict
\* corpus was made without it
C30_Witness ==
    /\ pc = "filtered"
    /\ scimago_files[END_YEAR][1].exists
    /\ scimago_files[END_YEAR] = scimago_files[FixtureYear]
    /\ \E k \in 1..Len(df_enhanced.rows) :
          LET row == df_enhanced.rows[k]
          IN /\ row["publication_year"] = PyInt(END_YEAR)
             /\ \E n \in 1..Len(row["source_issn"]) :
                   get_scimago_quartile(scimago_data, row["source_issn"][n],
                                        PyInt(FixtureYear)) \in {Q1, Q2, Q3}
             /\ row["scimago_quartile"] = None
             /\ \A n \in 1..Len(strict.rows) : strict.index[n] # df_enhanced.index[k]

====
